---- MODULE Spec2Model ----
(***************************************************************************)
(* Request handling and data access of the blog API: the auth gate         *)
(* (middleware/auth.ts), the post and comment routes (routes/posts.ts,     *)
(* routes/comments.ts), the admin post list (routes/admin.ts) and the      *)
(* router wiring (app.ts).                                                 *)
(*                                                                         *)
(* A handler runs to completion between two awaits (one event-loop turn);  *)
(* every awaited query is one atomic statement at the database and may     *)
(* fail.  An action is one such turn: the statement the request is waiting *)
(* for executes and the handler continues up to its next await or its      *)
(* response.                                                               *)
(***************************************************************************)
EXTENDS Integers, Sequences, FiniteSets, TLC

VARIABLES
    cognito,               \* process.env at start: which COGNITO_* variables are set
    devModeWarningLogged,  \* auth.ts module flag
    warnings,              \* number of console.warn('Auth disabled ...') lines written
    now,                   \* the wall clock read by new Date()
    posts,                 \* table posts: id -> row
    nextPostId,            \* posts_id_seq
    comments,              \* table comments: id -> row
    nextCommentId,         \* comments_id_seq
    categories,            \* table categories: id -> row
    nextCategoryId,        \* categories_id_seq
    tags,                  \* table tags: id -> row
    nextTagId,             \* tags_id_seq
    postTags,              \* table post_tags: the set of <<post_id, tag_id>>
    pendingViews,          \* view-count UPDATEs issued and not yet executed, per post id
    servedViews,           \* history: view-count UPDATEs ever issued, per post id
    unhandledRejection,    \* a promise was rejected with no handler attached to it
    everPublished,         \* history: ids of the posts that have had status = published
    req,                   \* the requests in flight, one per connection slot
    last                   \* the request the latest turn answered, with its response
                           \* (Idle when that turn sent no response)

vars == <<cognito, devModeWarningLogged, warnings, now, posts, nextPostId,
          comments, nextCommentId, categories, nextCategoryId, tags, nextTagId, postTags,
          pendingViews, servedViews, unhandledRejection, everPublished, req, last>>

db == <<posts, nextPostId, comments, nextCommentId>>

\* Node.js ends the process when a promise is rejected with no handler attached:
\* from then on no request arrives and no handler runs
ProcessExited == unhandledRejection

\* the tables around posts and comments
catalog == <<categories, nextCategoryId, tags, nextTagId, postTags>>

(***************************************************************************)
(* Bounds of the model.                                                    *)
(***************************************************************************)
MaxSlots == 2
MaxPosts == 2
MaxComments == 2
MaxClock == 1
MaxViews == 2
MaxCategories == 2
MaxTags == 2

Slots == 1..MaxSlots
PostIds == 1..MaxPosts
CommentIds == 1..MaxComments
CategoryIds == 1..MaxCategories
TagIds == 1..MaxTags

(***************************************************************************)
(* Optional values: a SQL NULL or an undefined body field is <<>>, a       *)
(* present value v is <<v>>.                                               *)
(***************************************************************************)
Null == <<>>
Some(v) == <<v>>
Opt(S) == {Null} \cup {Some(v) : v \in S}

PostStatus == {"draft", "published", "archived"}
CommentStatus == {"pending", "approved", "flagged", "deleted"}

(***************************************************************************)
(* middleware/auth.ts                                                      *)
(***************************************************************************)

\* An Authorization header is the list of its parts between single spaces
\* (authHeader.split(' ')); <<>> is the absent header.
NoHeader == <<>>
AuthHeaders ==
    { NoHeader,
      <<"Bearer", "good">>,
      <<"Bearer", "bad">>,
      <<"Basic", "good">>,
      <<"Bearer">>,
      <<"Bearer", "good", "x">> }

\* The tokens verifier.verify(token) resolves for; it rejects every other one.
ValidTokens == {"good"}

DevAdmin == [sub |-> "dev-admin-000", email |-> "admin@localhost", groups |-> <<"admin">>]
NoUser == [sub |-> "", email |-> "", groups |-> <<>>]
TokenUser(token) == [sub |-> token, email |-> token, groups |-> <<"admin">>]

\* const verifier = userPoolId && clientId ? CognitoJwtVerifier.create(...) : null
verifier == cognito.userPoolId /\ cognito.clientId

\* !authHeader: undefined or the empty string
HeaderMissing(h) == h = NoHeader \/ h = <<"">>

\* parts.length !== 2 || parts[0] !== 'Bearer'
HeaderMalformed(h) == Len(h) # 2 \/ h[1] # "Bearer"

(***************************************************************************)
(* app.ts and the routers: which endpoints have requireAuth in front.      *)
(***************************************************************************)
AdminEndpoints == {"adminListPosts", "adminGetPost", "adminStats"}
PostWriteEndpoints == {"createPost", "updatePost", "deletePost"}

Gated(ep) == ep \in AdminEndpoints \cup {"moderateComment"}

(***************************************************************************)
(* Requests.                                                               *)
(***************************************************************************)
NoBody == [none |-> TRUE]
NoLocal == [none |-> TRUE]

\* The body of a post request: the fields a client did not send are undefined.
NoFields ==
    [ title |-> Null, content |-> Null, excerpt |-> Null, category_id |-> Null,
      status |-> Null, featured |-> Null, tags |-> Null ]
PostBody(fields) ==
    [f \in DOMAIN NoFields |-> IF f \in DOMAIN fields THEN fields[f] ELSE NoFields[f]]

\* !v for a string field: undefined or the empty string
NoText(v) == v = Null \/ v = Some(<<>>)

\* !v for a numeric field: undefined or 0
NoNumber(v) == v = Null \/ v = Some(0)

\* req.query of a request without a query string
NoQuery == [search |-> Null, category |-> Null, tag |-> Null]

Idle ==
    [ ep |-> "none", pc |-> "idle", authorization |-> NoHeader, id |-> 0,
      slug |-> <<>>, query |-> NoQuery, body |-> NoBody, user |-> NoUser,
      nextCalled |-> FALSE,
      queries |-> 0, local |-> NoLocal, status |-> 0, resBody |-> <<>> ]

NewRequest(ep, hdr, id, slug, body) ==
    [ Idle EXCEPT !.ep = ep, !.authorization = hdr, !.id = id,
                  !.slug = slug, !.body = body ]

\* res.status(code).json(body)
Respond(q, code, body) == [q EXCEPT !.pc = "done", !.status = code, !.resBody = body]

Error(msg) == [error |-> msg]

\* the turn of request r ends with q: an answered request leaves its slot
Settle(r, q) ==
    IF q.pc = "done"
    THEN req' = [req EXCEPT ![r] = Idle] /\ last' = q
    ELSE req' = [req EXCEPT ![r] = q] /\ last' = Idle

(***************************************************************************)
(* Slugs.  Text is a sequence of one-character strings.                    *)
(***************************************************************************)
Upper == {"A", "B", "H"}
LowerCase == {"a", "b", "h", "i"}
Digits == {"1"}

\* String.prototype.toLowerCase, one character
ToLower(c) ==
    CASE c = "A" -> "a"
      [] c = "B" -> "b"
      [] c = "H" -> "h"
      [] OTHER -> c

RECURSIVE toLowerCase(_)
toLowerCase(s) == IF s = <<>> THEN <<>> ELSE <<ToLower(Head(s))>> \o toLowerCase(Tail(s))

\* [a-z0-9]
IsSlugChar(c) == c \in LowerCase \cup Digits

\* .replace(/[^a-z0-9]+/g, '-'): every maximal run of other characters becomes one hyphen
RECURSIVE ReplaceRuns(_)
ReplaceRuns(s) ==
    IF s = <<>> THEN <<>>
    ELSE LET rest == ReplaceRuns(Tail(s)) IN
         IF IsSlugChar(Head(s)) THEN <<Head(s)>> \o rest
         ELSE IF ~IsSlugChar(Head(s)) /\ Tail(s) # <<>> /\ ~IsSlugChar(Head(Tail(s))) THEN rest
         ELSE <<"-">> \o rest

\* .replace(/^-|-$/g, ''): one hyphen off the start and one off the end
TrimHyphensStartOnly(s) == IF s # <<>> /\ Head(s) = "-" THEN Tail(s) ELSE s
TrimHyphens(s) ==
    LET a == IF s # <<>> /\ Head(s) = "-" THEN Tail(s) ELSE s
    IN  IF a # <<>> /\ a[Len(a)] = "-" THEN SubSeq(a, 1, Len(a) - 1) ELSE a

Slugify(title) == TrimHyphens(ReplaceRuns(toLowerCase(title)))

Titles ==
    { <<"H", "i">>, <<"h", "i", "!">>, <<"a", " ", "b">>, <<"a", "-", "b">>,
      <<"!", "A", " ", "-", "B", "1", "!">>, <<"-", "-">> }

(***************************************************************************)
(* Reading time.                                                           *)
(***************************************************************************)
WordsPerMinute == 200

\* \s
Whitespace == {" ", "\n"}

\* content.split(/\s+/).length: one more piece than there are maximal runs of whitespace
SplitLength(s) ==
    1 + Cardinality({i \in 1..Len(s) :
                        /\ s[i] \in Whitespace
                        /\ (i = Len(s) \/ s[i + 1] \notin Whitespace)})

\* Math.ceil(a / b) for a >= 0, b > 0
Ceil(a, b) == (a + b - 1) \div b

Max(a, b) == IF a >= b THEN a ELSE b

\* Math.max(1, Math.ceil(wordCount / 200))
ReadingTime(content) == Max(1, Ceil(SplitLength(content), WordsPerMinute))

\* a text of n words "w" with one space between two words
Words(n) == [i \in 1..(2 * n - 1) |-> IF i % 2 = 1 THEN "w" ELSE " "]

(***************************************************************************)
(* The schema, as the handlers rely on it: slug is unique, new posts have  *)
(* view_count 0, new comments have status 'pending', and a comment refers  *)
(* to an existing post (ON DELETE CASCADE).                                *)
(***************************************************************************)
SlugTaken(slug) == \E p \in DOMAIN posts : posts[p].slug = slug
CategorySlugTaken(slug) == \E c \in DOMAIN categories : categories[c].slug = slug
DefaultViewCount == 0
DefaultCommentStatus == "pending"
CascadeComments(id) == [c \in {k \in DOMAIN comments : comments[k].post_id # id} |-> comments[c]]

RECURSIVE SumOver(_, _)
SumOver(f, S) ==
    IF S = {} THEN 0
    ELSE LET x == CHOOSE y \in S : TRUE IN f[x] + SumOver(f, S \ {x})

InFlight(ep, pcs) == Cardinality({s \in Slots : req[s].ep = ep /\ req[s].pc \in pcs})

(***************************************************************************)
(* middleware/auth.ts: requireAuth                                         *)
(***************************************************************************)

\* if (!devModeWarningLogged) { console.warn(...); devModeWarningLogged = true; }
DevModeWarningNoSet(logged, n) == IF ~logged THEN <<logged, n + 1>> ELSE <<logged, n>>
DevModeWarning(logged, n) == IF ~logged THEN <<TRUE, n + 1>> ELSE <<logged, n>>

\* req.user = { sub: 'dev-admin-000', ... }; next(); return
DevBypassHeaderRequired(q) ==
    IF HeaderMissing(q.authorization)
    THEN Respond(q, 401, Error("Authorization header is required"))
    ELSE [q EXCEPT !.user = DevAdmin, !.nextCalled = TRUE, !.pc = "handler"]
DevBypass(q) == [q EXCEPT !.user = DevAdmin, !.nextCalled = TRUE, !.pc = "handler"]

\* requireAuth up to its await: the dev-mode bypass and the header checks
requireAuthNoSchemeCheck(q) ==
    IF ~verifier THEN DevBypass(q)
    ELSE IF HeaderMissing(q.authorization)
    THEN Respond(q, 401, Error("Authorization header is required"))
    ELSE IF Len(q.authorization) # 2
    THEN Respond(q, 401, Error("Authorization header must be: Bearer <token>"))
    ELSE [q EXCEPT !.pc = "verify"]
requireAuth(q) ==
    IF ~verifier THEN DevBypass(q)
    ELSE IF HeaderMissing(q.authorization)
    THEN Respond(q, 401, Error("Authorization header is required"))
    ELSE IF HeaderMalformed(q.authorization)
    THEN Respond(q, 401, Error("Authorization header must be: Bearer <token>"))
    ELSE [q EXCEPT !.pc = "verify"]

\* the continuation of await verifier.verify(token)
requireAuthVerified(q) ==
    LET token == q.authorization[2] IN
    IF token \in ValidTokens
    THEN [q EXCEPT !.user = TokenUser(token), !.nextCalled = TRUE, !.pc = "handler"]
    ELSE Respond(q, 403, Error("Invalid or expired token"))

(***************************************************************************)
(* The first turn of each handler: from its entry to its first await.      *)
(***************************************************************************)
Issue(q, pc, local) == [q EXCEPT !.pc = pc, !.queries = @ + 1, !.local = local]

\* const publishedAt = status === 'published' ? new Date() : null
PublishedAtNever(status) == Null
PublishedAtOnCreate(status) == IF status = Some("published") THEN Some(now) ELSE Null

\* status || 'draft'
StatusOrDraft(status) == IF status = Null THEN "draft" ELSE status[1]

\* excerpt || null
ExcerptOrNull(excerpt) == IF NoText(excerpt) THEN Null ELSE excerpt

\* featured || false
FeaturedOrFalse(featured) == IF featured = Null THEN FALSE ELSE featured[1]

CreatePostStart(q) ==
    IF NoText(q.body.title) \/ NoText(q.body.content) \/ NoNumber(q.body.category_id)
    THEN Respond(q, 400, Error("Title, content, and category_id are required"))
    ELSE Issue(q, "insert",
               [ title |-> q.body.title[1],
                 slug |-> Slugify(q.body.title[1]),
                 content |-> q.body.content[1],
                 excerpt |-> ExcerptOrNull(q.body.excerpt),
                 category_id |-> q.body.category_id[1],
                 status |-> StatusOrDraft(q.body.status),
                 featured |-> FeaturedOrFalse(q.body.featured),
                 readingTime |-> ReadingTime(q.body.content[1]),
                 publishedAt |-> PublishedAtOnCreate(q.body.status) ])

\* the columns PUT /posts/:id can set: those the handler reads from req.body
UpdatableFieldsWithTags ==
    {"title", "content", "excerpt", "category_id", "status", "featured", "tags"}
UpdatableFields == {"title", "content", "excerpt", "category_id", "status", "featured"}

\* the fields of the body that are !== undefined
Supplied(body) == {f \in UpdatableFields : body[f] # Null}

\* updates.push(`column = $${paramIndex++}`); values.push(value): a clause of the SET
\* list with the number of its placeholder, and the value bound to it.  coalesce
\* marks column = COALESCE(column, $n).
PushKeepIndex(st, column, value, coalesce) ==
    [ updates |-> Append(st.updates, [ column |-> column, placeholder |-> st.paramIndex,
                                       coalesce |-> coalesce ]),
      values |-> Append(st.values, [from |-> column, value |-> value]),
      paramIndex |-> IF column = "reading_time_minutes" THEN st.paramIndex
                     ELSE st.paramIndex + 1 ]
Push(st, column, value, coalesce) ==
    [ updates |-> Append(st.updates, [ column |-> column, placeholder |-> st.paramIndex,
                                       coalesce |-> coalesce ]),
      values |-> Append(st.values, [from |-> column, value |-> value]),
      paramIndex |-> st.paramIndex + 1 ]

\* placeholder of a clause that binds no value: updated_at = NOW()
NoPlaceholder == 0

\* The statement PUT /posts/:id builds: the SET clauses, the values array, and the
\* placeholder of WHERE id = $n.
BuildUpdate(body, id, date) ==
    LET s0 == [updates |-> <<>>, values |-> <<>>, paramIndex |-> 1]
        s1 == IF body.title # Null THEN Push(s0, "title", body.title[1], FALSE) ELSE s0
        s2 == IF body.content # Null
              THEN Push(Push(s1, "content", body.content[1], FALSE),
                        "reading_time_minutes", ReadingTime(body.content[1]), FALSE)
              ELSE s1
        s3 == IF body.excerpt # Null THEN Push(s2, "excerpt", body.excerpt, FALSE) ELSE s2
        s4 == IF body.category_id # Null
              THEN Push(s3, "category_id", body.category_id[1], FALSE) ELSE s3
        s5 == IF body.status # Null
              THEN LET a == Push(s4, "status", body.status[1], FALSE) IN
                   IF body.status = Some("published")
                   THEN Push(a, "published_at", Some(date), TRUE) ELSE a
              ELSE s4
        s6 == IF body.featured # Null THEN Push(s5, "featured", body.featured[1], FALSE)
              ELSE s5
    IN  [ updates |-> Append(s6.updates, [ column |-> "updated_at",
                                           placeholder |-> NoPlaceholder,
                                           coalesce |-> FALSE ]),
          values |-> Append(s6.values, [from |-> "id", value |-> id]),
          where |-> s6.paramIndex ]

UpdatePostStartNoCheck(q) ==
    Issue(q, "update",
          [ readingTime |->
               IF q.body.content # Null THEN Some(ReadingTime(q.body.content[1])) ELSE Null,
            publishedAt |-> IF q.body.status = Some("published") THEN Some(now) ELSE Null,
            statement |-> BuildUpdate(q.body, q.id, now) ])
UpdatePostStart(q) ==
    IF Supplied(q.body) = {}
    THEN Respond(q, 400, Error("No fields to update"))
    ELSE Issue(q, "update",
               [ readingTime |->
                    IF q.body.content # Null THEN Some(ReadingTime(q.body.content[1])) ELSE Null,
                 publishedAt |-> IF q.body.status = Some("published") THEN Some(now) ELSE Null,
                 statement |-> BuildUpdate(q.body, q.id, now) ])

DeletePostStart(q) == Issue(q, "delete", NoLocal)
ListPostsStart(q) == Issue(q, "select", NoLocal)
GetPostStart(q) == Issue(q, "select", NoLocal)
AdminListPostsStart(q) == Issue(q, "select", NoLocal)
AdminGetPostStart(q) == Issue(q, "select", NoLocal)

\* GET /admin/stats: Promise.all([...]) issues the five queries at once
StatsQueries == {"postStats", "commentStats", "viewStats", "recentPosts", "recentComments"}
AdminStatsStart(q) ==
    [q EXCEPT !.pc = "all", !.queries = @ + Cardinality(StatsQueries),
              !.local = [pending |-> StatsQueries, results |-> <<>>]]
ListCommentsStart(q) == Issue(q, "select", NoLocal)

CreateCommentStartNoValidation(q) == Issue(q, "check", NoLocal)
CreateCommentStart(q) ==
    IF ~q.body.author_name \/ ~q.body.content
    THEN Respond(q, 400, Error("author_name and content are required"))
    ELSE Issue(q, "check", NoLocal)

ModerateCommentStartAnyStatus(q) ==
    IF q.body.status = Null
    THEN Respond(q, 400, Error("Status must be one of: pending, approved, flagged, deleted"))
    ELSE Issue(q, "update", NoLocal)
ModerateCommentStart(q) ==
    IF q.body.status = Null \/ q.body.status[1] \notin CommentStatus
    THEN Respond(q, 400, Error("Status must be one of: pending, approved, flagged, deleted"))
    ELSE Issue(q, "update", NoLocal)

\* POST /categories up to its await
CreateCategoryStart(q) ==
    IF NoText(q.body.name)
    THEN Respond(q, 400, Error("Name is required"))
    ELSE Issue(q, "insert",
               [ name |-> q.body.name[1],
                 slug |-> Slugify(q.body.name[1]),
                 description |-> ExcerptOrNull(q.body.description) ])

StartHandler(q) ==
    CASE q.ep = "createPost" -> CreatePostStart(q)
      [] q.ep = "createCategory" -> CreateCategoryStart(q)
      [] q.ep = "updatePost" -> UpdatePostStart(q)
      [] q.ep = "deletePost" -> DeletePostStart(q)
      [] q.ep = "listPosts" -> ListPostsStart(q)
      [] q.ep = "getPost" -> GetPostStart(q)
      [] q.ep = "adminListPosts" -> AdminListPostsStart(q)
      [] q.ep = "adminGetPost" -> AdminGetPostStart(q)
      [] q.ep = "adminStats" -> AdminStatsStart(q)
      [] q.ep = "listComments" -> ListCommentsStart(q)
      [] q.ep = "createComment" -> CreateCommentStart(q)
      [] q.ep = "moderateComment" -> ModerateCommentStart(q)

(***************************************************************************)
(* A request arrives: express runs requireAuth when the route has it, and  *)
(* then the handler, in the same turn.                                     *)
(***************************************************************************)
Free(r) == ~ProcessExited /\ req[r].pc = "idle"

Arrive(r, q) ==
    /\ Free(r)
    /\ \A s \in Slots : s < r => ~Free(s)
    /\ LET g == IF Gated(q.ep) THEN requireAuth(q) ELSE [q EXCEPT !.pc = "handler"]
           w == IF Gated(q.ep) /\ ~verifier
                THEN DevModeWarning(devModeWarningLogged, warnings)
                ELSE <<devModeWarningLogged, warnings>>
       IN  /\ Settle(r, IF g.pc = "handler" THEN StartHandler(g) ELSE g)
           /\ devModeWarningLogged' = w[1]
           /\ warnings' = w[2]
    /\ UNCHANGED <<cognito, catalog, now, db, pendingViews, servedViews,
                   unhandledRejection, everPublished>>

\* await verifier.verify(token) settles
VerifyDone(r) ==
    /\ ~ProcessExited
    /\ req[r].pc = "verify"
    /\ LET g == requireAuthVerified(req[r])
       IN  Settle(r, IF g.pc = "handler" THEN StartHandler(g) ELSE g)
    /\ UNCHANGED <<cognito, catalog, devModeWarningLogged, warnings, now, db, pendingViews, servedViews,
                   unhandledRejection, everPublished>>

Tick ==
    /\ now < MaxClock
    /\ now' = now + 1
    /\ last' = Idle
    /\ UNCHANGED <<cognito, catalog, devModeWarningLogged, warnings, db, pendingViews, servedViews,
                   unhandledRejection, everPublished, req>>

(***************************************************************************)
(* routes/posts.ts                                                         *)
(***************************************************************************)
At(r, ep, pc) == ~ProcessExited /\ req[r].ep = ep /\ req[r].pc = pc

\* the row a SELECT or RETURNING * hands back
PostRow(id, row) == [id |-> id] @@ row

\* INSERT INTO posts (title, slug, content, excerpt, category_id, status, featured,
\* reading_time_minutes, published_at) VALUES (...): the columns the statement names;
\* the others take their defaults
InsertedPost(local) ==
    [ title |-> local.title, slug |-> local.slug, content |-> local.content,
      excerpt |-> local.excerpt, category_id |-> local.category_id,
      status |-> local.status, featured |-> local.featured,
      reading_time_minutes |-> local.readingTime, published_at |-> local.publishedAt,
      view_count |-> DefaultViewCount, cover_image_url |-> Null, author_id |-> Null,
      created_at |-> now, updated_at |-> now ]

\* POST /posts: the INSERT executes
\* tags && tags.length > 0
HasTags(v) == v # Null /\ v[1] # <<>>

\* tagName.toLowerCase().replace(/[^a-z0-9]+/g, '-')
TagSlug(tagName) == ReplaceRuns(toLowerCase(tagName))

CreatePostInsert(r) ==
    /\ At(r, "createPost", "insert")
    /\ \E ok \in BOOLEAN :
         LET q == req[r]
             row == InsertedPost(q.local)
         IN  IF ~ok \/ SlugTaken(q.local.slug)
             THEN /\ Settle(r, Respond(q, 500, Error("Failed to create post")))
                  /\ UNCHANGED <<posts, nextPostId, everPublished>>
             ELSE /\ posts' = (nextPostId :> row) @@ posts
                  /\ nextPostId' = nextPostId + 1
                  /\ everPublished' =
                        IF row.status = "published" THEN everPublished \cup {nextPostId}
                        ELSE everPublished
                  /\ Settle(r,
                            IF HasTags(q.body.tags)
                            THEN Issue(q, "tagUpsert",
                                       [ post |-> PostRow(nextPostId, row),
                                         remaining |-> q.body.tags[1], tagId |-> 0 ])
                            ELSE Respond(q, 201, PostRow(nextPostId, row)))
    /\ UNCHANGED <<cognito, catalog, devModeWarningLogged, warnings, now, comments, nextCommentId,
                   pendingViews, servedViews,
                   unhandledRejection>>

\* INSERT INTO tags (name, slug, source) VALUES ($1, $2, 'manual')
\* ON CONFLICT (slug) DO UPDATE SET name = $1 RETURNING id
TagIdOfSlug(slug) == CHOOSE t \in DOMAIN tags : tags[t].slug = slug

UpsertedTagsNoConflictClause(tagName) ==
    (nextTagId :> [name |-> tagName, slug |-> TagSlug(tagName), source |-> "manual"]) @@ tags
UpsertedTags(tagName) ==
    LET slug == TagSlug(tagName) IN
    IF \E t \in DOMAIN tags : tags[t].slug = slug
    THEN [tags EXCEPT ![TagIdOfSlug(slug)].name = tagName]
    ELSE (nextTagId :> [name |-> tagName, slug |-> slug, source |-> "manual"]) @@ tags

UpsertedTagId(tagName) ==
    LET slug == TagSlug(tagName) IN
    IF \E t \in DOMAIN tags : tags[t].slug = slug THEN TagIdOfSlug(slug) ELSE nextTagId

\* POST /posts, tag loop: the upsert of the next tag name executes
CreatePostTagUpsert(r) ==
    /\ At(r, "createPost", "tagUpsert")
    /\ \E ok \in BOOLEAN :
         LET q == req[r]
             tagName == Head(q.local.remaining)
         IN  IF ~ok
             THEN /\ Settle(r, Respond(q, 500, Error("Failed to create post")))
                  /\ UNCHANGED <<tags, nextTagId>>
             ELSE /\ tags' = UpsertedTags(tagName)
                  /\ nextTagId' = IF UpsertedTagId(tagName) = nextTagId
                                  THEN nextTagId + 1 ELSE nextTagId
                  /\ Settle(r, Issue(q, "tagLink",
                                     [q.local EXCEPT !.tagId = UpsertedTagId(tagName)]))
    /\ UNCHANGED <<cognito, categories, nextCategoryId, postTags, devModeWarningLogged, warnings,
                   now, db, pendingViews, servedViews, unhandledRejection, everPublished>>

\* POST /posts, tag loop: INSERT INTO post_tags ... ON CONFLICT DO NOTHING executes;
\* after the last name the response is sent
CreatePostTagLinkRollback(r) ==
    /\ At(r, "createPost", "tagLink")
    /\ \E ok \in BOOLEAN :
         LET q == req[r]
             id == q.local.post.id
             rest == Tail(q.local.remaining)
         IN  IF ~ok \/ id \notin DOMAIN posts
             THEN /\ Settle(r, Respond(q, 500, Error("Failed to create post")))
                  /\ postTags' = {l \in postTags : l[1] # id}
                  /\ posts' = [p \in DOMAIN posts \ {id} |-> posts[p]]
             ELSE /\ postTags' = postTags \cup {<<id, q.local.tagId>>}
                  /\ posts' = posts
                  /\ Settle(r,
                            IF rest = <<>> THEN Respond(q, 201, q.local.post)
                            ELSE Issue(q, "tagUpsert", [q.local EXCEPT !.remaining = rest]))
    /\ UNCHANGED <<cognito, categories, nextCategoryId, tags, nextTagId, devModeWarningLogged,
                   warnings, now, nextPostId, comments, nextCommentId, pendingViews, servedViews,
                   unhandledRejection, everPublished>>
CreatePostTagLink(r) ==
    /\ At(r, "createPost", "tagLink")
    /\ \E ok \in BOOLEAN :
         LET q == req[r]
             id == q.local.post.id
             rest == Tail(q.local.remaining)
         IN  IF ~ok \/ id \notin DOMAIN posts
             THEN /\ Settle(r, Respond(q, 500, Error("Failed to create post")))
                  /\ UNCHANGED postTags
             ELSE /\ postTags' = postTags \cup {<<id, q.local.tagId>>}
                  /\ Settle(r,
                            IF rest = <<>> THEN Respond(q, 201, q.local.post)
                            ELSE Issue(q, "tagUpsert", [q.local EXCEPT !.remaining = rest]))
    /\ UNCHANGED <<cognito, categories, nextCategoryId, tags, nextTagId, devModeWarningLogged,
                   warnings, now, db, pendingViews, servedViews, unhandledRejection,
                   everPublished>>

\* published_at = COALESCE(published_at, $n)
CoalesceOverwrite(old, new) == new
Coalesce(old, new) == IF old # Null THEN old ELSE new

\* UPDATE posts SET <the supplied columns> WHERE id = $n
UpdatedPostReslug(row, body, local) ==
    [ row EXCEPT
        !.title = IF body.title # Null THEN body.title[1] ELSE @,
        !.slug = IF body.title # Null THEN Slugify(body.title[1]) ELSE @,
        !.content = IF body.content # Null THEN body.content[1] ELSE @,
        !.reading_time_minutes = IF body.content # Null THEN local.readingTime[1] ELSE @,
        !.excerpt = IF body.excerpt # Null THEN body.excerpt ELSE @,
        !.category_id = IF body.category_id # Null THEN body.category_id[1] ELSE @,
        !.status = IF body.status # Null THEN body.status[1] ELSE @,
        !.published_at =
            IF body.status = Some("published") THEN Coalesce(@, local.publishedAt) ELSE @,
        !.featured = IF body.featured # Null THEN body.featured[1] ELSE @,
        !.updated_at = now ]
UpdatedPostResetFeatured(row, body, local) ==
    [ row EXCEPT
        !.title = IF body.title # Null THEN body.title[1] ELSE @,
        !.content = IF body.content # Null THEN body.content[1] ELSE @,
        !.reading_time_minutes = IF body.content # Null THEN local.readingTime[1] ELSE @,
        !.excerpt = IF body.excerpt # Null THEN body.excerpt ELSE @,
        !.category_id = IF body.category_id # Null THEN body.category_id[1] ELSE @,
        !.status = IF body.status # Null THEN body.status[1] ELSE @,
        !.published_at =
            IF body.status = Some("published") THEN Coalesce(@, local.publishedAt) ELSE @,
        !.featured = FeaturedOrFalse(body.featured),
        !.updated_at = now ]
UpdatedPost(row, body, local) ==
    [ row EXCEPT
        !.title = IF body.title # Null THEN body.title[1] ELSE @,
        !.content = IF body.content # Null THEN body.content[1] ELSE @,
        !.reading_time_minutes = IF body.content # Null THEN local.readingTime[1] ELSE @,
        !.excerpt = IF body.excerpt # Null THEN body.excerpt ELSE @,
        !.category_id = IF body.category_id # Null THEN body.category_id[1] ELSE @,
        !.status = IF body.status # Null THEN body.status[1] ELSE @,
        !.published_at =
            IF body.status = Some("published") THEN Coalesce(@, local.publishedAt) ELSE @,
        !.featured = IF body.featured # Null THEN body.featured[1] ELSE @,
        !.updated_at = now ]

\* PUT /posts/:id: the UPDATE executes
UpdatePostExec(r) ==
    /\ At(r, "updatePost", "update")
    /\ \E ok \in BOOLEAN :
         LET q == req[r] IN
         IF ~ok
         THEN /\ Settle(r, Respond(q, 500, Error("Failed to update post")))
              /\ UNCHANGED <<posts, everPublished>>
         ELSE IF q.id \notin DOMAIN posts
         THEN /\ Settle(r, Respond(q, 404, Error("Post not found")))
              /\ UNCHANGED <<posts, everPublished>>
         ELSE LET row == UpdatedPost(posts[q.id], q.body, q.local) IN
              /\ posts' = [posts EXCEPT ![q.id] = row]
              /\ everPublished' =
                    IF row.status = "published" THEN everPublished \cup {q.id}
                    ELSE everPublished
              /\ Settle(r, Respond(q, 200, PostRow(q.id, row)))
    /\ UNCHANGED <<cognito, catalog, devModeWarningLogged, warnings, now, nextPostId, comments,
                   nextCommentId, pendingViews, servedViews,
                   unhandledRejection>>

\* DELETE /posts/:id: the DELETE executes
\* post_tags.post_id REFERENCES posts ON DELETE CASCADE
CascadePostTags(id) == {l \in postTags : l[1] # id}

DeletePostExecDropsTags(r) ==
    /\ At(r, "deletePost", "delete")
    /\ \E ok \in BOOLEAN :
         LET q == req[r] IN
         IF ~ok
         THEN /\ Settle(r, Respond(q, 500, Error("Failed to delete post")))
              /\ UNCHANGED <<posts, comments, postTags, tags>>
         ELSE IF q.id \notin DOMAIN posts
         THEN /\ Settle(r, Respond(q, 404, Error("Post not found")))
              /\ UNCHANGED <<posts, comments, postTags, tags>>
         ELSE /\ posts' = [p \in DOMAIN posts \ {q.id} |-> posts[p]]
              /\ comments' = CascadeComments(q.id)
              /\ postTags' = CascadePostTags(q.id)
              /\ tags' = [t \in {k \in DOMAIN tags : <<q.id, k>> \notin postTags} |-> tags[t]]
              /\ Settle(r, Respond(q, 200, [message |-> "Post deleted"]))
    /\ UNCHANGED <<cognito, categories, nextCategoryId, nextTagId, devModeWarningLogged,
                   warnings, now, nextPostId, nextCommentId, pendingViews, servedViews,
                   unhandledRejection, everPublished>>
DeletePostExec(r) ==
    /\ At(r, "deletePost", "delete")
    /\ \E ok \in BOOLEAN :
         LET q == req[r] IN
         IF ~ok
         THEN /\ Settle(r, Respond(q, 500, Error("Failed to delete post")))
              /\ UNCHANGED <<posts, comments, postTags>>
         ELSE IF q.id \notin DOMAIN posts
         THEN /\ Settle(r, Respond(q, 404, Error("Post not found")))
              /\ UNCHANGED <<posts, comments, postTags>>
         ELSE /\ posts' = [p \in DOMAIN posts \ {q.id} |-> posts[p]]
              /\ comments' = CascadeComments(q.id)
              /\ postTags' = CascadePostTags(q.id)
              /\ Settle(r, Respond(q, 200, [message |-> "Post deleted"]))
    /\ UNCHANGED <<cognito, categories, nextCategoryId, tags, nextTagId, devModeWarningLogged,
                   warnings, now, nextPostId, nextCommentId, pendingViews, servedViews,
                   unhandledRejection, everPublished>>

\* SELECT p.id, p.title, p.slug, ..., p.view_count, p.published_at FROM posts p ...
\* WHERE p.status = 'published'
\* the name and slug of every tag linked to a post
SelectTagNamesOfPost(postId) ==
    { [name |-> tags[t].name, slug |-> tags[t].slug] :
        t \in {k \in DOMAIN tags : <<postId, k>> \in postTags} }

\* LEFT JOIN categories c ON p.category_id = c.id: c.slug, NULL without a match
CategorySlugOf(row) ==
    IF row.category_id \in DOMAIN categories
    THEN Some(categories[row.category_id].slug) ELSE Null

ListRow(id, row) ==
    [ id |-> id, title |-> row.title, slug |-> row.slug, excerpt |-> row.excerpt,
      cover_image_url |-> row.cover_image_url, featured |-> row.featured,
      reading_time_minutes |-> row.reading_time_minutes, view_count |-> row.view_count,
      published_at |-> row.published_at, category_slug |-> CategorySlugOf(row),
      tags |-> SelectTagNamesOfPost(id) ]
SelectPublishedNoFilter == {ListRow(p, posts[p]) : p \in DOMAIN posts}
SelectPublished ==
    {ListRow(p, posts[p]) : p \in {k \in DOMAIN posts : posts[k].status = "published"}}

\* SELECT p.* ... WHERE p.slug = $1 AND p.status = 'published'
SelectBySlug(slug) ==
    {PostRow(p, posts[p]) :
        p \in {k \in DOMAIN posts : posts[k].slug = slug /\ posts[k].status = "published"}}

\* GET /posts: the SELECT executes
ListPostsExec(r) ==
    /\ At(r, "listPosts", "select")
    /\ \E ok \in BOOLEAN :
         Settle(r, IF ok THEN Respond(req[r], 200, SelectPublished)
                   ELSE Respond(req[r], 500, Error("Failed to fetch posts")))
    /\ UNCHANGED <<cognito, catalog, devModeWarningLogged, warnings, now, db, pendingViews, servedViews,
                   unhandledRejection, everPublished>>

\* GET /posts/:slug: the SELECT of the post executes
GetPostSelect(r) ==
    /\ At(r, "getPost", "select")
    /\ \E ok \in BOOLEAN :
         LET q == req[r]
             rows == SelectBySlug(q.slug)
         IN  Settle(r,
                       IF ~ok THEN Respond(q, 500, Error("Failed to fetch post"))
                       ELSE IF rows = {} THEN Respond(q, 404, Error("Post not found"))
                       ELSE Issue(q, "tags", [post |-> CHOOSE row \in rows : TRUE]))
    /\ UNCHANGED <<cognito, catalog, devModeWarningLogged, warnings, now, db, pendingViews, servedViews,
                   unhandledRejection, everPublished>>

\* SELECT t.name, t.slug, t.source, pt.confidence FROM tags t JOIN post_tags pt ...
\* WHERE pt.post_id = $1
SelectTagsOfPost(postId) ==
    { [name |-> tags[t].name, slug |-> tags[t].slug, source |-> tags[t].source,
       confidence |-> Null] : t \in {k \in DOMAIN tags : <<postId, k>> \in postTags} }

\* { ...post, tags: tagsResult.rows }
WithTags(post, rows) == [tags |-> rows] @@ post

\* GET /posts/:slug: the SELECT of the tags executes; the view-count UPDATE is
\* issued and not awaited, and the response is sent
GetPostTagsAwaited(r) ==
    /\ At(r, "getPost", "tags")
    /\ \E ok \in BOOLEAN :
         LET q == req[r]
             id == q.local.post.id
         IN
         IF ok
         THEN /\ posts' = IF id \in DOMAIN posts
                          THEN [posts EXCEPT ![id].view_count = @ + 1] ELSE posts
              /\ pendingViews' = pendingViews
              /\ servedViews' = [servedViews EXCEPT ![id] = @ + 1]
              /\ UNCHANGED unhandledRejection
              /\ Settle(r, Respond([q EXCEPT !.queries = @ + 1], 200,
                                   WithTags(q.local.post, SelectTagsOfPost(id))))
         ELSE /\ Settle(r, Respond(q, 500, Error("Failed to fetch post")))
              /\ UNCHANGED <<posts, pendingViews, servedViews,
                   unhandledRejection>>
    /\ UNCHANGED <<cognito, catalog, devModeWarningLogged, warnings, now, nextPostId, comments,
                   nextCommentId, everPublished>>
GetPostTags(r) ==
    /\ At(r, "getPost", "tags")
    /\ \E ok \in BOOLEAN :
         LET q == req[r] IN
         IF ok
         THEN /\ pendingViews' = [pendingViews EXCEPT ![q.local.post.id] = @ + 1]
              /\ servedViews' = [servedViews EXCEPT ![q.local.post.id] = @ + 1]
              /\ UNCHANGED unhandledRejection
              /\ Settle(r, Respond([q EXCEPT !.queries = @ + 1], 200,
                                   WithTags(q.local.post, SelectTagsOfPost(q.local.post.id))))
         ELSE /\ Settle(r, Respond(q, 500, Error("Failed to fetch post")))
              /\ UNCHANGED <<pendingViews, servedViews, unhandledRejection>>
    /\ UNCHANGED <<cognito, catalog, devModeWarningLogged, warnings, now, db, everPublished>>

\* UPDATE posts SET view_count = view_count + 1 WHERE id = $1 executes, or fails
\* The promise query() returns at l.92 is dropped: no await, no .catch().
IncrementViewCountLost(p) ==
    /\ ~ProcessExited
    /\ pendingViews[p] > 0
    /\ pendingViews' = [pendingViews EXCEPT ![p] = @ - 1]
    /\ \E ok \in BOOLEAN :
         /\ posts' = IF ok /\ p \in DOMAIN posts
                     THEN [posts EXCEPT ![p].view_count = Max(@, 1)]
                     ELSE posts
         /\ unhandledRejection' = (unhandledRejection \/ ~ok)
    /\ last' = Idle
    /\ UNCHANGED <<cognito, catalog, devModeWarningLogged, warnings, now, nextPostId, comments,
                   nextCommentId, servedViews, everPublished, req>>
IncrementViewCount(p) ==
    /\ ~ProcessExited
    /\ pendingViews[p] > 0
    /\ pendingViews' = [pendingViews EXCEPT ![p] = @ - 1]
    /\ \E ok \in BOOLEAN :
         /\ posts' = IF ok /\ p \in DOMAIN posts
                     THEN [posts EXCEPT ![p].view_count = @ + 1]
                     ELSE posts
         /\ unhandledRejection' = (unhandledRejection \/ ~ok)
    /\ last' = Idle
    /\ UNCHANGED <<cognito, catalog, devModeWarningLogged, warnings, now, nextPostId, comments,
                   nextCommentId, servedViews, everPublished, req>>

(***************************************************************************)
(* routes/admin.ts                                                         *)
(***************************************************************************)

\* SELECT p.id, p.title, p.slug, p.status, ... FROM posts p (no WHERE)
SelectAdminPosts == {PostRow(p, posts[p]) : p \in DOMAIN posts}

\* GET /admin/posts: the SELECT executes
AdminListPostsExec(r) ==
    /\ At(r, "adminListPosts", "select")
    /\ \E ok \in BOOLEAN :
         Settle(r, IF ok THEN Respond(req[r], 200, SelectAdminPosts)
                   ELSE Respond(req[r], 500, Error("Failed to fetch posts")))
    /\ UNCHANGED <<cognito, catalog, devModeWarningLogged, warnings, now, db, pendingViews, servedViews,
                   unhandledRejection, everPublished>>

\* SELECT p.*, ... FROM posts p ... WHERE p.id = $1
SelectById(id) == {PostRow(p, posts[p]) : p \in {k \in DOMAIN posts : k = id}}

\* GET /admin/posts/:id: the SELECT of the post executes
AdminGetPostSelect(r) ==
    /\ At(r, "adminGetPost", "select")
    /\ \E ok \in BOOLEAN :
         LET q == req[r]
             rows == SelectById(q.id)
         IN  Settle(r,
                    IF ~ok THEN Respond(q, 500, Error("Failed to fetch post"))
                    ELSE IF rows = {} THEN Respond(q, 404, Error("Post not found"))
                    ELSE Issue(q, "tags", [post |-> CHOOSE row \in rows : TRUE]))
    /\ UNCHANGED <<cognito, catalog, devModeWarningLogged, warnings, now, db, pendingViews, servedViews,
                   unhandledRejection,
                   everPublished>>

\* GET /admin/posts/:id: the SELECT of the tags executes and the response is sent
AdminGetPostTagsCounting(r) ==
    /\ At(r, "adminGetPost", "tags")
    /\ \E ok \in BOOLEAN :
         LET q == req[r] IN
         IF ok
         THEN /\ pendingViews' = [pendingViews EXCEPT ![q.local.post.id] = @ + 1]
              /\ UNCHANGED <<servedViews, unhandledRejection>>
              /\ Settle(r, Respond(q, 200,
                                   WithTags(q.local.post, SelectTagNamesOfPost(q.local.post.id))))
         ELSE /\ Settle(r, Respond(q, 500, Error("Failed to fetch post")))
              /\ UNCHANGED <<pendingViews, servedViews, unhandledRejection>>
    /\ UNCHANGED <<cognito, catalog, devModeWarningLogged, warnings, now, db, everPublished>>
AdminGetPostTags(r) ==
    /\ At(r, "adminGetPost", "tags")
    /\ \E ok \in BOOLEAN :
         LET q == req[r] IN
         Settle(r,
                IF ok
                THEN Respond(q, 200,
                             WithTags(q.local.post, SelectTagNamesOfPost(q.local.post.id)))
                ELSE Respond(q, 500, Error("Failed to fetch post")))
    /\ UNCHANGED <<cognito, catalog, devModeWarningLogged, warnings, now, db, pendingViews, servedViews,
                   unhandledRejection,
                   everPublished>>

\* the rows of the five aggregate queries of GET /admin/stats
CountPosts(statuses) == Cardinality({p \in DOMAIN posts : posts[p].status \in statuses})
CountComments(statuses) ==
    Cardinality({c \in DOMAIN comments : comments[c].status \in statuses})

StatsResult(k) ==
    CASE k = "postStats" ->
           [ total |-> CountPosts(PostStatus), published |-> CountPosts({"published"}),
             drafts |-> CountPosts({"draft"}) ]
      [] k = "commentStats" ->
           [ total |-> CountComments(CommentStatus), pending |-> CountComments({"pending"}),
             approved |-> CountComments({"approved"}),
             flagged |-> CountComments({"flagged"}) ]
      [] k = "viewStats" ->
           [ total |-> SumOver([p \in DOMAIN posts |-> posts[p].view_count], DOMAIN posts) ]
      [] k = "recentPosts" ->
           { [ title |-> posts[p].title, status |-> posts[p].status,
               published_at |-> posts[p].published_at, created_at |-> posts[p].created_at ] :
               p \in DOMAIN posts }
      [] k = "recentComments" ->
           { [ id |-> c, status |-> comments[c].status,
               post_title |-> IF comments[c].post_id \in DOMAIN posts
                              THEN Some(posts[comments[c].post_id].title) ELSE Null ] :
               c \in DOMAIN comments }

\* res.json({ posts, comments, views, recentPosts, recentComments })
StatsBody(results) ==
    [ posts |-> results["postStats"], comments |-> results["commentStats"],
      views |-> results["viewStats"], recentPosts |-> results["recentPosts"],
      recentComments |-> results["recentComments"] ]

\* GET /admin/stats: one of the five queries completes while Promise.all is awaited.
\* The first rejection rejects Promise.all and the catch block answers; the queries
\* that are still running stay with the request as "settled".
AdminStatsQueryAllSettled(r) ==
    /\ At(r, "adminStats", "all")
    /\ \E k \in req[r].local.pending, ok \in BOOLEAN :
         LET q == req[r]
             pending == q.local.pending \ {k}
             results == (k :> IF ok THEN StatsResult(k) ELSE Null) @@ q.local.results
         IN  Settle(r,
                    IF pending = {} THEN Respond(q, 200, StatsBody(results))
                    ELSE [q EXCEPT !.local = [pending |-> pending, results |-> results]])
    /\ UNCHANGED <<cognito, catalog, devModeWarningLogged, warnings, now, db, pendingViews,
                   servedViews, unhandledRejection, everPublished>>
AdminStatsQuery(r) ==
    /\ At(r, "adminStats", "all")
    /\ \E k \in req[r].local.pending, ok \in BOOLEAN :
         LET q == req[r]
             pending == q.local.pending \ {k}
             results == (k :> StatsResult(k)) @@ q.local.results
         IN  IF ok
             THEN Settle(r,
                         IF pending = {} THEN Respond(q, 200, StatsBody(results))
                         ELSE [q EXCEPT !.local = [pending |-> pending, results |-> results]])
             ELSE /\ last' = Respond(q, 500, Error("Failed to fetch admin stats"))
                  /\ req' = [req EXCEPT ![r] =
                               IF pending = {} THEN Idle
                               ELSE [q EXCEPT !.pc = "settled", !.local.pending = pending]]
    /\ UNCHANGED <<cognito, catalog, devModeWarningLogged, warnings, now, db, pendingViews,
                   servedViews, unhandledRejection, everPublished>>

\* GET /admin/stats after its 500: a query that was still running completes; Promise.all
\* holds its handlers, so the outcome is dropped
AdminStatsLeftover(r) ==
    /\ At(r, "adminStats", "settled")
    /\ \E k \in req[r].local.pending, ok \in BOOLEAN :
         LET pending == req[r].local.pending \ {k} IN
         req' = [req EXCEPT ![r] =
                   IF pending = {} THEN Idle ELSE [@ EXCEPT !.local.pending = pending]]
    /\ last' = Idle
    /\ UNCHANGED <<cognito, catalog, devModeWarningLogged, warnings, now, db, pendingViews,
                   servedViews, unhandledRejection, everPublished>>

(***************************************************************************)
(* routes/categories.ts                                                    *)
(***************************************************************************)

\* INSERT INTO categories (name, slug, description) VALUES ($1, $2, $3) RETURNING *
InsertedCategory(local) ==
    [name |-> local.name, slug |-> local.slug, description |-> local.description]

\* POST /categories: the INSERT executes
CreateCategoryInsert(r) ==
    /\ At(r, "createCategory", "insert")
    /\ \E ok \in BOOLEAN :
         LET q == req[r]
             row == InsertedCategory(q.local)
         IN  IF ~ok \/ CategorySlugTaken(row.slug)
             THEN /\ Settle(r, Respond(q, 500, Error("Failed to create category")))
                  /\ UNCHANGED <<categories, nextCategoryId>>
             ELSE /\ categories' = (nextCategoryId :> row) @@ categories
                  /\ nextCategoryId' = nextCategoryId + 1
                  /\ Settle(r, Respond(q, 201, PostRow(nextCategoryId, row)))
    /\ UNCHANGED <<cognito, devModeWarningLogged, warnings, now, db, tags, nextTagId, postTags,
                   pendingViews, servedViews,
                   unhandledRejection, everPublished>>

(***************************************************************************)
(* routes/comments.ts                                                      *)
(***************************************************************************)

\* SELECT id, author_name, content, created_at FROM comments
\* WHERE post_id = $1 AND status = 'approved'
SelectApprovedAnyPost(postId) == {c \in DOMAIN comments : comments[c].status = "approved"}
SelectApproved(postId) ==
    {c \in DOMAIN comments : comments[c].post_id = postId /\ comments[c].status = "approved"}

\* GET /posts/:postId/comments: the SELECT executes
ListCommentsExec(r) ==
    /\ At(r, "listComments", "select")
    /\ \E ok \in BOOLEAN :
         Settle(r, IF ok THEN Respond(req[r], 200, SelectApproved(req[r].id))
                   ELSE Respond(req[r], 500, Error("Failed to fetch comments")))
    /\ UNCHANGED <<cognito, catalog, devModeWarningLogged, warnings, now, db, pendingViews, servedViews,
                   unhandledRejection, everPublished>>

\* POST /posts/:postId/comments: SELECT id FROM posts WHERE id = $1 executes
CreateCommentCheck(r) ==
    /\ At(r, "createComment", "check")
    /\ \E ok \in BOOLEAN :
         LET q == req[r] IN
         Settle(r,
                   IF ~ok THEN Respond(q, 500, Error("Failed to create comment"))
                   ELSE IF q.id \notin DOMAIN posts THEN Respond(q, 404, Error("Post not found"))
                   ELSE Issue(q, "insert", NoLocal))
    /\ UNCHANGED <<cognito, catalog, devModeWarningLogged, warnings, now, db, pendingViews, servedViews,
                   unhandledRejection, everPublished>>

\* INSERT INTO comments (post_id, author_name, author_email, content) VALUES (...):
\* the columns the statement names; the others take their defaults
InsertedCommentWithStatus(postId, body) ==
    [ post_id |-> postId,
      status |-> IF body.status # Null THEN body.status[1] ELSE DefaultCommentStatus ]
InsertedComment(postId, body) == [post_id |-> postId, status |-> DefaultCommentStatus]

\* POST /posts/:postId/comments: the INSERT executes
\* comments.post_id REFERENCES posts: the INSERT fails when the post is gone
CreateCommentInsertUnchecked(r) ==
    /\ At(r, "createComment", "insert")
    /\ \E ok \in BOOLEAN :
         LET q == req[r]
             row == InsertedComment(q.id, q.body)
         IN  IF ~ok
             THEN /\ Settle(r, Respond(q, 500, Error("Failed to create comment")))
                  /\ UNCHANGED <<comments, nextCommentId>>
             ELSE /\ comments' = (nextCommentId :> row) @@ comments
                  /\ nextCommentId' = nextCommentId + 1
                  /\ Settle(r,
                               Respond(q, 201, [id |-> nextCommentId, status |-> row.status]))
    /\ UNCHANGED <<cognito, catalog, devModeWarningLogged, warnings, now, posts, nextPostId,
                   pendingViews, servedViews,
                   unhandledRejection, everPublished>>
CreateCommentInsert(r) ==
    /\ At(r, "createComment", "insert")
    /\ \E ok \in BOOLEAN :
         LET q == req[r]
             row == InsertedComment(q.id, q.body)
         IN  IF ~ok \/ q.id \notin DOMAIN posts
             THEN /\ Settle(r, Respond(q, 500, Error("Failed to create comment")))
                  /\ UNCHANGED <<comments, nextCommentId>>
             ELSE /\ comments' = (nextCommentId :> row) @@ comments
                  /\ nextCommentId' = nextCommentId + 1
                  /\ Settle(r,
                               Respond(q, 201, [id |-> nextCommentId, status |-> row.status]))
    /\ UNCHANGED <<cognito, catalog, devModeWarningLogged, warnings, now, posts, nextPostId,
                   pendingViews, servedViews,
                   unhandledRejection, everPublished>>

\* PUT /comments/:id/status: UPDATE comments SET status = $1 WHERE id = $2 executes
ModerateCommentExec(r) ==
    /\ At(r, "moderateComment", "update")
    /\ \E ok \in BOOLEAN :
         LET q == req[r] IN
         IF ~ok
         THEN /\ Settle(r,
                           Respond(q, 500, Error("Failed to update comment status")))
              /\ UNCHANGED comments
         ELSE IF q.id \notin DOMAIN comments
         THEN /\ Settle(r, Respond(q, 404, Error("Comment not found")))
              /\ UNCHANGED comments
         ELSE /\ comments' = [comments EXCEPT ![q.id].status = q.body.status[1]]
              /\ Settle(r,
                           Respond(q, 200, [id |-> q.id, status |-> q.body.status[1]]))
    /\ UNCHANGED <<cognito, catalog, devModeWarningLogged, warnings, now, posts, nextPostId,
                   nextCommentId, pendingViews, servedViews,
                   unhandledRejection, everPublished>>

(***************************************************************************)
(* Requests a client can send.  Post and comment ids are capped so that    *)
(* the sequences stay within the bounds.                                   *)
(***************************************************************************)
ViewsSoFar == SumOver(servedViews, PostIds) + InFlight("getPost", {"select", "tags"})

\* a short content and the category of the seed
Text == <<"w">>
SeedCategory == 1

\* complete bodies for POST /posts that differ in title and status
CreatePostBodies(titles, statuses) ==
    { PostBody([title |-> t, content |-> Some(Text), category_id |-> Some(SeedCategory),
                status |-> st]) : t \in titles, st \in statuses }

\* bodies for PUT /posts/:id that carry a title, a status, both or neither
UpdatePostBodies(titles, statuses) ==
    { PostBody([title |-> t, status |-> st]) : t \in titles, st \in statuses }

ArriveCreatePost(r, headers, bodies) ==
    /\ nextPostId + InFlight("createPost", {"insert"}) <= MaxPosts
    /\ \E hdr \in headers, body \in bodies :
         Arrive(r, NewRequest("createPost", hdr, 0, <<>>, body))

ArriveUpdatePost(r, headers, ids, bodies) ==
    \E hdr \in headers, id \in ids, body \in bodies :
        Arrive(r, NewRequest("updatePost", hdr, id, <<>>, body))

ArriveCreateCategory(r, names) ==
    /\ nextCategoryId + InFlight("createCategory", {"insert"}) <= MaxCategories
    /\ \E name \in names :
         Arrive(r, NewRequest("createCategory", NoHeader, 0, <<>>,
                              [name |-> name, description |-> Null]))

ArriveDeletePost(r, headers, ids) ==
    \E hdr \in headers, id \in ids :
        Arrive(r, NewRequest("deletePost", hdr, id, <<>>, NoBody))

ArriveListPosts(r, queries) ==
    \E qs \in queries :
        Arrive(r, [NewRequest("listPosts", NoHeader, 0, <<>>, NoBody) EXCEPT !.query = qs])

ArriveGetPost(r, slugs) ==
    /\ ViewsSoFar < MaxViews
    /\ \E slug \in slugs : Arrive(r, NewRequest("getPost", NoHeader, 0, slug, NoBody))

ArriveAdminListPosts(r, headers) ==
    \E hdr \in headers : Arrive(r, NewRequest("adminListPosts", hdr, 0, <<>>, NoBody))

ArriveAdminStats(r, headers) ==
    \E hdr \in headers : Arrive(r, NewRequest("adminStats", hdr, 0, <<>>, NoBody))

ArriveAdminGetPost(r, headers, ids) ==
    \E hdr \in headers, id \in ids :
        Arrive(r, NewRequest("adminGetPost", hdr, id, <<>>, NoBody))

ArriveListComments(r, ids) ==
    \E id \in ids : Arrive(r, NewRequest("listComments", NoHeader, id, <<>>, NoBody))

ArriveCreateComment(r, ids, statuses) ==
    /\ nextCommentId + InFlight("createComment", {"check", "insert"}) <= MaxComments
    /\ \E id \in ids, body \in [author_name : BOOLEAN, content : BOOLEAN, status : statuses] :
         Arrive(r, NewRequest("createComment", NoHeader, id, <<>>, body))

ArriveModerateComment(r, headers, ids, statuses) ==
    \E hdr \in headers, id \in ids, body \in [status : statuses] :
        Arrive(r, NewRequest("moderateComment", hdr, id, <<>>, body))

(***************************************************************************)
(* Initial states.                                                         *)
(***************************************************************************)
SeedPost ==
    [ title |-> <<"H", "i">>, slug |-> <<"h", "i">>, content |-> Text, excerpt |-> Null,
      category_id |-> SeedCategory, status |-> "published", featured |-> FALSE,
      reading_time_minutes |-> 1, published_at |-> Some(0), view_count |-> 0,
      cover_image_url |-> Null, author_id |-> Some(1), created_at |-> 0, updated_at |-> 0 ]

InitProcess ==
    /\ devModeWarningLogged = FALSE
    /\ warnings = 0
    /\ now = 0
    /\ pendingViews = [p \in PostIds |-> 0]
    /\ servedViews = [p \in PostIds |-> 0]
    /\ unhandledRejection = FALSE
    /\ req = [r \in Slots |-> Idle]
    /\ last = Idle

\* the categories, tags and tag links the database starts with
SeedCategoryRow == [name |-> <<"A", "b">>, slug |-> <<"a", "b">>, description |-> Null]
SecondCategoryRow == [name |-> <<"B">>, slug |-> <<"b">>, description |-> Null]
SeedTagRow == [name |-> <<"A">>, slug |-> <<"a">>, source |-> "manual"]

InitCatalog ==
    /\ categories = (SeedCategory :> SeedCategoryRow)
    /\ nextCategoryId = SeedCategory + 1
    /\ tags = <<>>
    /\ nextTagId = 1
    /\ postTags = {}

DevMode == [userPoolId |-> FALSE, clientId |-> FALSE]

(***************************************************************************)
(* SpecAuth: the auth gate under every configuration of the COGNITO_*      *)
(* variables, in front of the moderation and admin routes, next to the     *)
(* post write routes.                                                      *)
(***************************************************************************)
InitAuth ==
    /\ InitProcess
    /\ InitCatalog
    /\ cognito \in [userPoolId : BOOLEAN, clientId : BOOLEAN]
    /\ posts = (1 :> SeedPost)
    /\ nextPostId = 2
    /\ comments = (1 :> [post_id |-> 1, status |-> "pending"])
    /\ nextCommentId = 2
    /\ everPublished = {1}

NextAuth ==
    \E r \in Slots :
        \/ ArriveModerateComment(r, AuthHeaders, {1}, {Null, Some("approved")})
        \/ ArriveAdminListPosts(r, {NoHeader, <<"Bearer", "good">>})
        \/ ArriveCreatePost(r, {NoHeader, <<"Bearer", "bad">>},
                            CreatePostBodies({Some(<<"a", " ", "b">>)}, {Null}))
        \/ ArriveUpdatePost(r, {NoHeader}, {1}, UpdatePostBodies({Null}, {Some("archived")}))
        \/ ArriveDeletePost(r, {NoHeader}, {1})
        \/ VerifyDone(r)
        \/ ModerateCommentExec(r)
        \/ AdminListPostsExec(r)
        \/ CreatePostInsert(r)
        \/ UpdatePostExec(r)
        \/ DeletePostExec(r)

SpecAuth == InitAuth /\ [][NextAuth]_vars

\* a well-formed bearer credential that verifies
ValidCredential(h) == Len(h) = 2 /\ h[1] = "Bearer" /\ h[2] \in ValidTokens

\* the requests in flight and the one just answered
Requests == {req[r] : r \in Slots} \cup {last}
Seen == {q \in Requests : q.pc # "idle"}
Answered(ep, code) == last.pc = "done" /\ last.ep = ep /\ last.status = code

\* request r takes this step
Moves(r) == req'[r] # req[r]

\* request r is answered in this step
Answers(r) == req[r].pc # "idle" /\ req'[r].pc = "idle"

(* C1: in Enforcing mode a handler behind requireAuth runs only after the  *)
(* token verified: no header gives 401, a header that is not 'Bearer       *)
(* <token>' gives 401, a token that fails verification gives 403, and in   *)
(* these cases next() is not called and the handler issues no query.       *)
C1_GateEnforces ==
    verifier =>
      \A q \in Seen :
        Gated(q.ep) =>
          LET h == q.authorization IN
          /\ (q.nextCalled \/ q.queries > 0) => ValidCredential(h)
          /\ ~ValidCredential(h) =>
               /\ ~q.nextCalled
               /\ q.queries = 0
               /\ IF h = NoHeader \/ Len(h) # 2 \/ h[1] # "Bearer"
                  THEN q.pc = "done" /\ q.status = 401
                  ELSE q.pc = "verify" \/ (q.pc = "done" /\ q.status = 403)

C1_Witness ==
    /\ verifier
    /\ Answered("moderateComment", 403)
    /\ comments[1].status = "pending"
    /\ \E r \in Slots :
         /\ req[r].ep = "moderateComment" /\ req[r].nextCalled /\ req[r].pc = "update"

(* C2: the post write endpoints are admin-gated: in Enforcing mode a       *)
(* request to POST /posts, PUT /posts/:id or DELETE /posts/:id without a   *)
(* valid bearer credential is answered 401 or 403 and issues no statement  *)
(* against the posts table.                                                *)
C2_PostWritesGated ==
    verifier =>
      \A q \in Seen :
        (q.ep \in PostWriteEndpoints /\ ~ValidCredential(q.authorization)) =>
          /\ q.queries = 0
          /\ q.pc = "done" => q.status \in {401, 403}

(* C3: in Disabled mode every request reaching requireAuth is passed to    *)
(* the handler with the fixed admin identity and is never answered 401 or  *)
(* 403, whatever its Authorization header; POST /posts with a valid body   *)
(* and no Authorization header is answered 201 (500 when its INSERT        *)
(* fails).                                                                 *)
C3_DisabledPassesAll ==
    ~verifier =>
      \A q \in Seen :
        /\ Gated(q.ep) =>
             /\ q.nextCalled
             /\ q.user = DevAdmin
             /\ q.status \notin {401, 403}
        /\ (q.pc = "done" /\ q.ep = "createPost" /\ q.authorization = NoHeader
              /\ ~NoText(q.body.title) /\ ~NoText(q.body.content)
              /\ ~NoNumber(q.body.category_id)) =>
             q.status \in {201, 500}

\* a post was created without a header while a request with a bad token is past the gate
C3_Witness ==
    /\ ~verifier
    /\ Answered("createPost", 201)
    /\ last.authorization = NoHeader
    /\ \E r \in Slots :
         /\ Gated(req[r].ep) /\ req[r].nextCalled /\ req[r].user = DevAdmin
         /\ req[r].authorization = <<"Basic", "good">>

(* C4: the mode of the gate is decided by COGNITO_USER_POOL_ID alone and   *)
(* never changes: the gate bypasses authentication when the variable is    *)
(* not set, and whenever it is set every gated request that reaches its    *)
(* handler carries a token that verifies.                                  *)
C4_ModeByUserPoolId ==
    \A q \in Seen :
      Gated(q.ep) =>
        IF cognito.userPoolId
        THEN q.nextCalled => ValidCredential(q.authorization)
        ELSE q.nextCalled /\ q.user = DevAdmin

(* C5: in Disabled mode the 'Auth disabled' warning is written exactly     *)
(* once per process, by the first request through requireAuth, under any   *)
(* interleaving of gated requests; in Enforcing mode it is never written.  *)
C5_WarningOnce ==
    /\ warnings <= 1
    /\ devModeWarningLogged <=> warnings = 1
    /\ verifier => warnings = 0
    /\ (~verifier /\ \E q \in Seen : Gated(q.ep)) => warnings = 1

\* every slot holds a gated request that went through the bypass
C5_Witness ==
    /\ warnings = 1
    /\ \A r \in Slots : Gated(req[r].ep) /\ req[r].nextCalled

(***************************************************************************)
(* SpecPublish: posts are created and updated concurrently while the clock *)
(* advances.                                                               *)
(***************************************************************************)
InitEmpty ==
    /\ InitProcess
    /\ InitCatalog
    /\ cognito = DevMode
    /\ posts = <<>>
    /\ nextPostId = 1
    /\ comments = <<>>
    /\ nextCommentId = 1
    /\ everPublished = {}

NextPublish ==
    \/ Tick
    \/ \E r \in Slots :
        \/ ArriveCreatePost(r, {NoHeader},
                            CreatePostBodies({Some(<<"H", "i">>), Some(<<"a", " ", "b">>)},
                                             Opt(PostStatus)))
        \/ ArriveUpdatePost(r, {NoHeader}, PostIds, UpdatePostBodies({Null}, Opt(PostStatus)))
        \/ CreatePostInsert(r)
        \/ UpdatePostExec(r)

SpecPublish == InitEmpty /\ [][NextPublish]_vars

(* C6: under every interleaving of PUT /posts/:id requests, an update with *)
(* status = published sets published_at if and only if it was null before  *)
(* that update, and a published_at that is non-null is changed by no later *)
(* step.                                                                   *)
C6_PublishedAtSetOnce ==
    [][ \A p \in DOMAIN posts \cap DOMAIN posts' :
          /\ posts[p].published_at # Null => posts'[p].published_at = posts[p].published_at
          /\ \A r \in Slots :
               (At(r, "updatePost", "update") /\ req[r].id = p /\ Answers(r)
                  /\ last'.status = 200) =>
                 ( posts'[p].published_at # posts[p].published_at
                     <=> (req[r].body.status = Some("published") /\ posts[p].published_at = Null) )
      ]_vars

\* a second publish, stamped later than the first, has been answered and left
\* published_at as the first one set it
C6_Witness ==
    /\ Answered("updatePost", 200)
    /\ last.body.status = Some("published")
    /\ last.id \in DOMAIN posts
    /\ posts[last.id].published_at # Null
    /\ last.local.publishedAt # posts[last.id].published_at

(* C7: a post's published_at is non-null exactly when the post has at some *)
(* time had status = published: every post in status published has it     *)
(* set, a post never published has it null, and creation sets it only      *)
(* when the payload status is published.                                   *)
C7_PublishedAtIffEverPublished ==
    /\ \A p \in DOMAIN posts :
         /\ posts[p].published_at # Null <=> p \in everPublished
         /\ posts[p].status = "published" => posts[p].published_at # Null
    /\ Answered("createPost", 201) =>
         (last.resBody.published_at # Null <=> last.body.status = Some("published"))

C7_Witness ==
    \E p \in DOMAIN posts, k \in DOMAIN posts :
        /\ posts[p].status = "draft" /\ p \in everPublished
        /\ posts[k].status = "archived" /\ k \notin everPublished

(***************************************************************************)
(* SpecComments: readers comment on a post, a moderator changes comment    *)
(* statuses, and the public list is read, in both modes of the gate.       *)
(***************************************************************************)
Enforcing == [userPoolId |-> TRUE, clientId |-> TRUE]

InitComments ==
    /\ InitProcess
    /\ InitCatalog
    /\ cognito \in {DevMode, Enforcing}
    /\ posts = (1 :> SeedPost)
    /\ nextPostId = 2
    /\ comments = <<>>
    /\ nextCommentId = 1
    /\ everPublished = {1}

NextComments ==
    \E r \in Slots :
        \/ ArriveCreateComment(r, {1, 2}, {Null, Some("approved")})
        \/ ArriveListComments(r, {1, 2})
        \/ ArriveModerateComment(r, {NoHeader, <<"Bearer", "good">>}, CommentIds,
                                 Opt(CommentStatus \cup {"invalid-value"}))
        \/ ArriveDeletePost(r, {NoHeader}, {1})
        \/ VerifyDone(r)
        \/ DeletePostExec(r)
        \/ CreateCommentCheck(r)
        \/ CreateCommentInsert(r)
        \/ ListCommentsExec(r)
        \/ ModerateCommentExec(r)

SpecComments == InitComments /\ [][NextComments]_vars

(* C8: every comment created through POST /posts/:postId/comments has      *)
(* status = pending in the stored row and in the 201 response, whatever    *)
(* the request body holds, a status field included.                        *)
C8_CommentStartsPending ==
    [][ \A r \in Slots :
          (At(r, "createComment", "insert") /\ Answers(r) /\ last'.status = 201) =>
            /\ last'.resBody.status = "pending"
            /\ last'.resBody.id \in DOMAIN comments' \ DOMAIN comments
            /\ comments'[last'.resBody.id].status = "pending"
      ]_vars

C8_Witness ==
    /\ Answered("createComment", 201)
    /\ last.body.status = Some("approved")
    /\ comments[last.resBody.id].status = "pending"

(* C9: a comment's status is changed only by PUT /comments/:id/status,     *)
(* which runs behind requireAuth, and GET /posts/:postId/comments returns  *)
(* exactly the comments of that post whose status is approved at the time  *)
(* of the read.                                                            *)
C9_ModerationOnlyAndApprovedOnly ==
    [][ /\ \A c \in DOMAIN comments \cap DOMAIN comments' :
             comments'[c].status # comments[c].status =>
               \E r \in Slots :
                   /\ At(r, "moderateComment", "update") /\ Answers(r)
                   /\ req[r].id = c
                   /\ req[r].nextCalled
                   /\ verifier => ValidCredential(req[r].authorization)
                   /\ comments'[c].status = req[r].body.status[1]
        /\ \A r \in Slots :
             (At(r, "listComments", "select") /\ Answers(r) /\ last'.status = 200) =>
               last'.resBody =
                  {c \in DOMAIN comments :
                      comments[c].post_id = req[r].id /\ comments[c].status = "approved"}
      ]_vars

\* a comment that was approved and then flagged is missing from the list just read,
\* next to another comment of the post that is listed
C9_Witness ==
    /\ Answered("listComments", 200)
    /\ last.resBody # {}
    /\ \E c \in DOMAIN comments :
         /\ comments[c].post_id = last.id
         /\ comments[c].status = "flagged"
         /\ c \notin last.resBody

InvalidStatus(status) == status = Null \/ status[1] \notin CommentStatus

(* C18: PUT /comments/:id/status with a status that is missing or not one  *)
(* of pending, approved, flagged, deleted is answered 400 with a message   *)
(* listing the four values and changes no comment; with a valid status and *)
(* an id that does not exist it is answered 404; otherwise the stored      *)
(* status of the comment equals the requested one.                         *)
C18_ModerationValidated ==
    [][ /\ (last'.ep = "moderateComment" /\ last'.nextCalled
              /\ InvalidStatus(last'.body.status)) =>
             /\ last'.status = 400
             /\ last'.resBody =
                   Error("Status must be one of: pending, approved, flagged, deleted")
             /\ last'.queries = 0
             /\ comments' = comments
        /\ \A r \in Slots :
             /\ req'[r].ep = "moderateComment" /\ req'[r].nextCalled =>
                  ~InvalidStatus(req'[r].body.status)
             /\ (At(r, "moderateComment", "update") /\ Moves(r)) =>
                  /\ Answers(r)
                  /\ IF req[r].id \notin DOMAIN comments
                     THEN last'.status \in {404, 500} /\ comments' = comments
                     ELSE /\ last'.status \in {200, 500}
                          /\ last'.status = 200 =>
                               comments' =
                                 [comments EXCEPT ![req[r].id].status = req[r].body.status[1]]
                          /\ last'.status = 500 => comments' = comments
      ]_vars

\* an authenticated moderation with a status outside the four values has been
\* answered 400
C18_Witness ==
    /\ verifier
    /\ Answered("moderateComment", 400)
    /\ last.nextCalled
    /\ last.body.status = Some("invalid-value")
    /\ \E c \in DOMAIN comments : comments[c].status = "flagged"

(***************************************************************************)
(* SpecPublic: the public and the admin reads of posts next to the writes  *)
(* that change a post's status.                                            *)
(***************************************************************************)
NextPublic ==
    \/ \E p \in PostIds : IncrementViewCount(p)
    \/ \E r \in Slots :
        \/ ArriveCreatePost(r, {NoHeader},
                            CreatePostBodies({Some(<<"H", "i">>), Some(<<"a", " ", "b">>)},
                                             {Null, Some("published")}))
        \/ ArriveUpdatePost(r, {NoHeader}, {1},
                            UpdatePostBodies({Null}, {Some("published"), Some("archived")}))
        \/ ArriveListPosts(r, {NoQuery})
        \/ ArriveGetPost(r, {<<"h", "i">>, <<"a", "-", "b">>})
        \/ ArriveAdminListPosts(r, {NoHeader})
        \/ ArriveAdminGetPost(r, {NoHeader}, {1})
        \/ CreatePostInsert(r)
        \/ UpdatePostExec(r)
        \/ ListPostsExec(r)
        \/ GetPostSelect(r)
        \/ GetPostTags(r)
        \/ AdminListPostsExec(r)
        \/ AdminGetPostSelect(r)
        \/ AdminGetPostTags(r)

SpecPublic == InitEmpty /\ [][NextPublic]_vars

Ids(rows) == {row.id : row \in rows}
PublishedIds == {p \in DOMAIN posts : posts[p].status = "published"}

(* C10: the public post endpoints never expose a post that is not          *)
(* published: GET /posts lists exactly the posts with status = published,  *)
(* GET /posts/:slug answers 404 for a slug that no published post has, a   *)
(* post created without a status is a draft, and GET /admin/posts returns  *)
(* the posts of every status.                                              *)
C10_PublicReadsPublishedOnly ==
    [][ \A r \in Slots :
          /\ (At(r, "listPosts", "select") /\ Answers(r) /\ last'.status = 200) =>
               Ids(last'.resBody) = PublishedIds
          /\ (At(r, "getPost", "select") /\ Moves(r)) =>
               IF \E p \in PublishedIds : posts[p].slug = req[r].slug
               THEN Answers(r) => last'.status = 500
               ELSE Answers(r) /\ last'.status \in {404, 500}
          /\ (At(r, "getPost", "select") /\ req'[r].pc = "tags") =>
               /\ req'[r].local.post.id \in PublishedIds
               /\ req'[r].local.post.slug = req[r].slug
          /\ (At(r, "createPost", "insert") /\ req[r].body.status = Null /\ Answers(r)
                /\ last'.status = 201) =>
               /\ last'.resBody.id \notin DOMAIN posts
               /\ posts'[last'.resBody.id].status = "draft"
          /\ (At(r, "adminListPosts", "select") /\ Answers(r) /\ last'.status = 200) =>
               Ids(last'.resBody) = DOMAIN posts
      ]_vars

\* a public list was just answered without the draft and the archived post that exist
C10_Witness ==
    /\ Answered("listPosts", 200)
    /\ Ids(last.resBody) = PublishedIds
    /\ \E p \in DOMAIN posts : posts[p].status = "draft"
    /\ PublishedIds # {}

\* the view counts of the posts that exist before and after a step are the same
ViewCountsKept ==
    \A p \in DOMAIN posts \cap DOMAIN posts' : posts'[p].view_count = posts[p].view_count

(* C19: the view_count of a post never decreases.  It changes only when    *)
(* the UPDATE issued by GET /posts/:slug executes, which adds exactly 1 to *)
(* that post and to no other; that UPDATE is issued only when the request  *)
(* found a published post and is answered 200.  GET /posts,                *)
(* GET /admin/posts, GET /admin/posts/:id, a GET /posts/:slug answered 404 *)
(* and PUT /posts/:id neither change a view_count nor issue an increment.  *)
C19_ViewCountOnlyByPublicGet ==
    [][ /\ \A p \in DOMAIN posts \cap DOMAIN posts' :
             /\ posts'[p].view_count >= posts[p].view_count
             /\ posts'[p].view_count # posts[p].view_count =>
                  /\ posts'[p].view_count = posts[p].view_count + 1
                  /\ pendingViews[p] > 0
                  /\ pendingViews'[p] = pendingViews[p] - 1
                  /\ req' = req
                  /\ \A k \in DOMAIN posts \ {p} :
                        k \in DOMAIN posts' /\ posts'[k].view_count = posts[k].view_count
        /\ \A p \in PostIds :
             pendingViews'[p] > pendingViews[p] =>
                  /\ pendingViews'[p] = pendingViews[p] + 1
                  /\ \E r \in Slots :
                        /\ At(r, "getPost", "tags") /\ Answers(r) /\ last'.status = 200
                        /\ req[r].local.post.id = p
                        /\ req[r].local.post.status = "published"
        /\ \A r \in Slots :
             (/\ Moves(r)
              /\ \/ req[r].ep \in {"listPosts", "adminListPosts", "adminGetPost", "updatePost"}
                 \/ req'[r].ep \in {"listPosts", "adminListPosts", "adminGetPost", "updatePost"}
                 \/ At(r, "getPost", "select") /\ Answers(r)) =>
                  /\ ViewCountsKept
                  /\ pendingViews' = pendingViews
      ]_vars

\* a post was viewed twice, and the admin read of it was just answered with the
\* count of two that it left unchanged
C19_Witness ==
    /\ Answered("adminGetPost", 200)
    /\ last.resBody.view_count = 2
    /\ posts[last.resBody.id].view_count = 2

(* C20: GET /posts/:slug does not wait for its view-count UPDATE.  The     *)
(* step that answers 200 issues the UPDATE and leaves it pending: no       *)
(* view_count has changed when the response is sent.  The body is the row  *)
(* as the SELECT read it, with its view_count of that moment, plus the     *)
(* tags; the later outcome of the UPDATE has no part in it.                *)
C20_ResponseBeforeIncrement ==
    [][ \A r \in Slots :
          /\ (At(r, "getPost", "select") /\ req'[r].pc = "tags") =>
               \E p \in DOMAIN posts : req'[r].local.post = PostRow(p, posts[p])
          /\ (At(r, "getPost", "tags") /\ Answers(r) /\ last'.status = 200) =>
               LET post == req[r].local.post IN
               /\ pendingViews'[post.id] = pendingViews[post.id] + 1
               /\ posts' = posts
               /\ last'.resBody.view_count = post.view_count
               /\ \A f \in DOMAIN post : last'.resBody[f] = post[f]
               /\ DOMAIN last'.resBody = DOMAIN post \cup {"tags"}
      ]_vars

\* a view was just answered 200 with the count the post still has, while the
\* UPDATE it issued has not executed
C20_Witness ==
    /\ Answered("getPost", 200)
    /\ last.resBody.id \in DOMAIN posts
    /\ pendingViews[last.resBody.id] > 0
    /\ last.resBody.view_count = posts[last.resBody.id].view_count

(* C21: every data-access failure is caught inside the handler that issued *)
(* the query, the view-count UPDATE of GET /posts/:slug included: no       *)
(* rejected query is ever an unhandled rejection.                          *)
C21_NoUnhandledRejection == unhandledRejection = FALSE

(* C26: view-count increments are not lost: for the N requests             *)
(* GET /posts/:slug answered 200 for a post, in any interleaving of the    *)
(* requests and of their UPDATE statements, the view_count plus the        *)
(* UPDATEs still pending equals N as long as no UPDATE was rejected; once  *)
(* all N have executed the view_count is N above its start of 0.           *)
C26_NoLostIncrement ==
    \A p \in DOMAIN posts :
        ~unhandledRejection => posts[p].view_count + pendingViews[p] = servedViews[p]

\* two views of one post were served and both of their UPDATEs have executed
C26_Witness ==
    \E p \in DOMAIN posts :
        /\ servedViews[p] = MaxViews
        /\ pendingViews[p] = 0
        /\ posts[p].view_count = MaxViews
        /\ ~unhandledRejection

(***************************************************************************)
(* SpecSlug: posts and categories are created from titles and names of     *)
(* every shape, and posts are retitled.                                    *)
(***************************************************************************)
NextSlug ==
    \E r \in Slots :
        \/ ArriveCreatePost(r, {NoHeader}, CreatePostBodies({Some(t) : t \in Titles}, {Null}))
        \/ ArriveCreateCategory(r, {Null, Some(<<"-", "H", "i">>),
                                    Some(<<"!", "A", " ", "-", "B", "1", "!">>)})
        \/ ArriveUpdatePost(r, {NoHeader}, PostIds,
                            UpdatePostBodies({Some(<<"a", " ", "b">>)}, {Null}))
        \/ CreatePostInsert(r)
        \/ CreateCategoryInsert(r)
        \/ UpdatePostExec(r)

SpecSlug == InitEmpty /\ [][NextSlug]_vars

\* the maximal runs of [a-z0-9] characters of s, in order (cur is the run being read)
RECURSIVE AlnumRuns(_, _)
AlnumRuns(s, cur) ==
    LET done == IF cur = <<>> THEN <<>> ELSE <<cur>> IN
    IF s = <<>> THEN done
    ELSE IF IsSlugChar(Head(s)) THEN AlnumRuns(Tail(s), Append(cur, Head(s)))
    ELSE done \o AlnumRuns(Tail(s), <<>>)

\* the runs with one hyphen between two of them
RECURSIVE JoinHyphen(_)
JoinHyphen(runs) ==
    IF runs = <<>> THEN <<>>
    ELSE IF Len(runs) = 1 THEN runs[1]
    ELSE runs[1] \o <<"-">> \o JoinHyphen(Tail(runs))

\* the text lowercased, every maximal run of other characters replaced by one hyphen,
\* no hyphen at the start or the end
ExpectedSlug(text) == JoinHyphen(AlnumRuns(toLowerCase(text), <<>>))

(* C12: for every accepted title of a post and name of a category, the     *)
(* slug stored and returned on creation is the input lowercased with every *)
(* maximal run of characters outside [a-z0-9] replaced by one hyphen and   *)
(* with no hyphen at the start or the end.                                 *)
C12_SlugOfTitle ==
    [][ \A r \in Slots :
          /\ (At(r, "createPost", "insert") /\ Answers(r) /\ last'.status = 201) =>
               /\ last'.resBody.id \notin DOMAIN posts
               /\ last'.resBody.slug = ExpectedSlug(req[r].body.title[1])
               /\ posts'[last'.resBody.id].slug = ExpectedSlug(req[r].body.title[1])
          /\ (At(r, "createCategory", "insert") /\ Answers(r) /\ last'.status = 201) =>
               /\ last'.resBody.id \notin DOMAIN categories
               /\ last'.resBody.slug = ExpectedSlug(req[r].body.name[1])
               /\ categories'[last'.resBody.id].slug = ExpectedSlug(req[r].body.name[1])
      ]_vars

\* a post whose title starts and ends with punctuation and has a run of two
\* separators has been created next to a category of such a name
C12_Witness ==
    /\ Answered("createPost", 201)
    /\ last.body.title = Some(<<"!", "A", " ", "-", "B", "1", "!">>)
    /\ last.resBody.slug = <<"a", "-", "b", "1">>
    /\ \E c \in DOMAIN categories : c # SeedCategory /\ categories[c].slug = <<"h", "i">>

(* C13: the slug of a post is fixed at creation: no PUT /posts/:id, with a *)
(* new title or any other field, changes the slug of any post.             *)
C13_SlugImmutable ==
    [][ \A p \in DOMAIN posts \cap DOMAIN posts' : posts'[p].slug = posts[p].slug ]_vars

\* a post has been retitled and keeps the slug of its first title
C13_Witness ==
    /\ Answered("updatePost", 200)
    /\ last.body.title # Null
    /\ posts[last.id].title = last.body.title[1]
    /\ posts[last.id].slug # Slugify(last.body.title[1])

(***************************************************************************)
(* SpecReading: posts are created and their content replaced, with         *)
(* contents around the 200-word mark.                                      *)
(***************************************************************************)
Contents ==
    { Words(1), Words(WordsPerMinute), Words(WordsPerMinute + 1),
      Words(WordsPerMinute) \o <<"\n">> }

NextReading ==
    \E r \in Slots :
        \/ ArriveCreatePost(r, {NoHeader},
              { PostBody([title |-> Some(t), content |-> Some(c),
                          category_id |-> Some(SeedCategory)]) :
                  t \in {<<"H", "i">>, <<"a", "-", "b">>}, c \in Contents })
        \/ ArriveUpdatePost(r, {NoHeader}, PostIds,
              { PostBody([content |-> Some(c)]) : c \in Contents })
        \/ CreatePostInsert(r)
        \/ UpdatePostExec(r)

SpecReading == InitEmpty /\ [][NextReading]_vars

\* the number of whitespace-separated words of a text: its maximal runs of
\* characters that are not whitespace
WordCount(s) ==
    Cardinality({i \in 1..Len(s) :
                    /\ s[i] \notin Whitespace
                    /\ (i = 1 \/ s[i - 1] \in Whitespace)})

(* C14: every post created by POST /posts or whose content was set by PUT  *)
(* /posts/:id has reading_time_minutes = max(1, ceil(word_count(content) / *)
(* 200)), where word_count is the number of whitespace-separated words of  *)
(* the content.                                                            *)
C14_ReadingTime ==
    \A p \in DOMAIN posts :
        posts[p].reading_time_minutes =
            Max(1, Ceil(WordCount(posts[p].content), WordsPerMinute))

(***************************************************************************)
(* SpecUpdate: one post is updated with every subset of the updatable      *)
(* fields, one PUT after the other, next to writes that fail validation.   *)
(***************************************************************************)
DraftPost ==
    [ SeedPost EXCEPT !.status = "draft", !.published_at = Null, !.author_id = Null ]

\* the process has run for a while: the clock is past the creation of the post
InitUpdate ==
    /\ devModeWarningLogged = FALSE
    /\ warnings = 0
    /\ now = MaxClock
    /\ pendingViews = [p \in PostIds |-> 0]
    /\ servedViews = [p \in PostIds |-> 0]
    /\ unhandledRejection = FALSE
    /\ req = [r \in Slots |-> Idle]
    /\ last = Idle
    /\ categories = (SeedCategory :> SeedCategoryRow)
    /\ nextCategoryId = SeedCategory + 1
    /\ tags = (1 :> SeedTagRow)
    /\ nextTagId = 2
    /\ postTags = {<<1, 1>>}
    /\ cognito = DevMode
    /\ posts = (1 :> DraftPost)
    /\ nextPostId = 2
    /\ comments = <<>>
    /\ nextCommentId = 1
    /\ everPublished = {}

\* the bodies of PUT /posts/:id: every subset of the fields, each with a new value
UpdateBodies ==
    { PostBody(b) :
        b \in [ title : Opt({<<"a", " ", "b">>}), content : Opt({<<"w", " ", "w">>}),
                excerpt : Opt({<<"x">>}), category_id : Opt({2}),
                status : Opt({"published", "archived"}), featured : Opt({TRUE}) ] }

\* bodies of PUT /posts/:id that supply no updatable field, and one that does
NoFieldBodies == {NoFields, PostBody([tags |-> Some(<< <<"a">> >>)])}
OneFieldBody == PostBody([excerpt |-> Some(<<"x">>)])
TaggedFieldBody == PostBody([featured |-> Some(TRUE), tags |-> Some(<< <<"b">> >>)])

\* bodies of POST /posts with a required field missing, empty or zero
InvalidCreateBodies ==
    { PostBody(b) :
        b \in [ title : {Null, Some(<<>>), Some(<<"H", "i">>)},
                content : Opt({Text}), category_id : {Null, Some(0), Some(SeedCategory)} ] }
      \ { PostBody([title |-> Some(<<"H", "i">>), content |-> Some(Text),
                    category_id |-> Some(SeedCategory)]) }

NextUpdate ==
    \E r \in Slots :
        \/ ArriveCreatePost(r, {NoHeader}, InvalidCreateBodies)
        \/ /\ InFlight("updatePost", {"update"}) = 0
           /\ \/ ArriveUpdatePost(r, {NoHeader}, {1}, UpdateBodies)
              \/ ArriveUpdatePost(r, {NoHeader}, {1, 2},
                                  NoFieldBodies \cup {OneFieldBody, TaggedFieldBody})
        \/ UpdatePostExec(r)

SpecUpdate == InitUpdate /\ [][NextUpdate]_vars

\* the columns of the posts table
PostColumns == DOMAIN SeedPost

MissingRequired(body) ==
    NoText(body.title) \/ NoText(body.content) \/ NoNumber(body.category_id)

\* the request fails the validation of its handler
FailsValidation(q) ==
    \/ q.ep = "createPost" /\ MissingRequired(q.body)
    \/ q.ep = "updatePost" /\ Supplied(q.body) = {}

(* C16: validation precedes data access on the post write endpoints: POST  *)
(* /posts without title, content or category_id is answered 400, and PUT   *)
(* /posts/:id with none of the updatable fields is answered 400 'No fields *)
(* to update', also for an id that does not exist; no statement is issued  *)
(* and the database is unchanged.                                          *)
C16_ValidationFirst ==
    [][ /\ \A r \in Slots : ~FailsValidation(req'[r])
        /\ FailsValidation(last') =>
             /\ last'.status = 400
             /\ last'.queries = 0
             /\ last'.ep = "updatePost" => last'.resBody = Error("No fields to update")
             /\ UNCHANGED <<db, catalog, pendingViews, servedViews,
                   unhandledRejection>>
      ]_vars

\* a PUT without fields for a post that does not exist has been answered
C16_Witness ==
    /\ Answered("updatePost", 400)
    /\ last.id \notin DOMAIN posts
    /\ last.body.tags # Null

\* the clauses of a statement that bind a placeholder, in their order
BoundClauses(st) == SelectSeq(st.updates, LAMBDA c : c.placeholder # NoPlaceholder)

\* the columns PUT /posts/:id has to set for a body
ColumnsToSet(body) ==
    Supplied(body)
      \cup (IF body.content # Null THEN {"reading_time_minutes"} ELSE {})
      \cup (IF body.status = Some("published") THEN {"published_at"} ELSE {})

\* the value a column is to be given by the request q
ValueFor(column, q) ==
    CASE column = "title" -> q.body.title[1]
      [] column = "content" -> q.body.content[1]
      [] column = "reading_time_minutes" -> ReadingTime(q.body.content[1])
      [] column = "excerpt" -> q.body.excerpt
      [] column = "category_id" -> q.body.category_id[1]
      [] column = "status" -> q.body.status[1]
      [] column = "published_at" -> q.local.publishedAt
      [] column = "featured" -> q.body.featured[1]

(* C28: in PUT /posts/:id, for every subset of supplied fields and either  *)
(* value of status, the placeholders of the statement are $1..$n in order  *)
(* without gap or repeat, the i-th value is the value for the column bound *)
(* to $i, and the post id is the last value, bound to the placeholder of   *)
(* the WHERE clause; the row stored is the one these bindings give.        *)
C28_PlaceholdersAligned ==
    [][ \A r \in Slots :
          At(r, "updatePost", "update") =>
            LET q == req[r]
                st == q.local.statement
                bound == BoundClauses(st)
                n == Len(bound)
            IN  /\ \A i \in 1..n : bound[i].placeholder = i
                /\ {bound[i].column : i \in 1..n} = ColumnsToSet(q.body)
                /\ n = Cardinality(ColumnsToSet(q.body))
                /\ Len(st.values) = n + 1
                /\ st.where = n + 1
                /\ st.values[st.where] = [from |-> "id", value |-> q.id]
                /\ \A i \in 1..n :
                      /\ st.values[i].from = bound[i].column
                      /\ st.values[i].value = ValueFor(bound[i].column, q)
                /\ (Answers(r) /\ last'.status = 200) =>
                      \A i \in 1..n :
                         posts'[q.id][bound[i].column] =
                            IF bound[i].coalesce
                            THEN Coalesce(posts[q.id][bound[i].column], st.values[i].value)
                            ELSE st.values[i].value
      ]_vars

\* every field was supplied with status = published: eight placeholders and the id
C28_Witness ==
    /\ Answered("updatePost", 200)
    /\ Supplied(last.body) = UpdatableFields
    /\ last.body.status = Some("published")
    /\ last.local.statement.where = 9
    /\ Len(last.local.statement.updates) = 9

(* C29: PUT /posts/:id never changes tag data: a tags field in the body is *)
(* ignored, the post_tags links and the tag rows are the same after the    *)
(* update as before it, and a body with tags alone is answered 400 'No     *)
(* fields to update'.                                                      *)
C29_UpdateIgnoresTags ==
    [][ /\ \A r \in Slots :
             (Moves(r) /\ (req[r].ep = "updatePost" \/ req'[r].ep = "updatePost")) =>
                tags' = tags /\ postTags' = postTags /\ nextTagId' = nextTagId
        /\ \A r \in Slots :
             (At(r, "updatePost", "update") /\ Answers(r) /\ last'.status = 200) =>
                /\ posts'[req[r].id] =
                      UpdatedPost(posts[req[r].id], [req[r].body EXCEPT !.tags = Null],
                                  req[r].local)
                /\ "tags" \notin DOMAIN last'.resBody
        /\ (last'.ep = "updatePost" /\ last'.pc = "done"
              /\ \A f \in DOMAIN last'.body \ {"tags"} : last'.body[f] = Null) =>
                /\ last'.status = 400
                /\ last'.resBody = Error("No fields to update")
                /\ UNCHANGED <<db, catalog>>
      ]_vars

\* an update that named a new tag next to a field was just answered 200: the post
\* has the one link to the one tag it had
C29_Witness ==
    /\ Answered("updatePost", 200)
    /\ last.body.tags = Some(<< <<"b">> >>)
    /\ last.id = 1 /\ posts[1].featured
    /\ postTags = {<<1, 1>>}
    /\ tags = (1 :> SeedTagRow)

(***************************************************************************)
(* SpecFilter: the public list is requested with every combination of the  *)
(* search, category and tag parameters, over two published posts of        *)
(* different categories, one of them tagged, while the second post is      *)
(* archived and published again.                                           *)
(***************************************************************************)
SecondPost ==
    [ SeedPost EXCEPT !.title = <<"B">>, !.slug = <<"b">>, !.category_id = 2,
                      !.excerpt = Some(<<"a", " ", "H", "i">>) ]

InitFilter ==
    /\ InitProcess
    /\ cognito = DevMode
    /\ categories = (SeedCategory :> SeedCategoryRow) @@ (2 :> SecondCategoryRow)
    /\ nextCategoryId = 3
    /\ tags = (1 :> SeedTagRow)
    /\ nextTagId = 2
    /\ postTags = {<<1, 1>>}
    /\ posts = (1 :> SeedPost) @@ (2 :> SecondPost)
    /\ nextPostId = 3
    /\ comments = <<>>
    /\ nextCommentId = 1
    /\ everPublished = {1, 2}

ListQueries ==
    [ search : {Null, Some(<<"H", "I">>), Some(<<"b">>)},
      category : {Null, Some(<<"a", "b">>)},
      tag : {Null, Some(<<"a">>)} ]

NextFilter ==
    \E r \in Slots :
        \/ ArriveListPosts(r, ListQueries)
        \/ ArriveUpdatePost(r, {NoHeader}, {2},
                            UpdatePostBodies({Null}, {Some("published"), Some("archived")}))
        \/ ListPostsExec(r)
        \/ UpdatePostExec(r)

SpecFilter == InitFilter /\ [][NextFilter]_vars

\* needle occurs in text
IsSubstring(needle, text) ==
    \E i \in 0..(Len(text) - Len(needle)) : SubSeq(text, i + 1, i + Len(needle)) = needle

\* the post satisfies every filter the query supplies
Matches(p, qs) ==
    /\ qs.search # Null =>
         LET needle == toLowerCase(qs.search[1]) IN
         \/ IsSubstring(needle, toLowerCase(posts[p].title))
         \/ /\ posts[p].excerpt # Null
            /\ IsSubstring(needle, toLowerCase(posts[p].excerpt[1]))
    /\ qs.category # Null => CategorySlugOf(posts[p]) = qs.category
    /\ qs.tag # Null => \E row \in SelectTagNamesOfPost(p) : row.slug = qs.tag[1]

(* C11: GET /posts with any combination of ?search=, ?category= and ?tag=  *)
(* returns exactly the published posts that satisfy every supplied filter  *)
(* (search: case-insensitive substring of title or excerpt; category: the  *)
(* category slug; tag: the post has a tag of that slug); an absent filter  *)
(* imposes no constraint.                                                  *)
C11_FiltersApplied ==
    [][ \A r \in Slots :
          (At(r, "listPosts", "select") /\ Answers(r) /\ last'.status = 200) =>
              Ids(last'.resBody) = {p \in PublishedIds : Matches(p, req[r].query)}
      ]_vars
(***************************************************************************)
(* SpecDelete: two posts that share a tag and have a comment each are      *)
(* deleted, again and again, next to deletes of an id no post has, while   *)
(* comments are listed and written.                                        *)
(***************************************************************************)
SeedComment(postId) == [post_id |-> postId, status |-> "approved"]

InitDelete ==
    /\ InitProcess
    /\ cognito = DevMode
    /\ categories = (SeedCategory :> SeedCategoryRow) @@ (2 :> SecondCategoryRow)
    /\ nextCategoryId = 3
    /\ tags = (1 :> SeedTagRow)
    /\ nextTagId = 2
    /\ postTags = {<<1, 1>>, <<2, 1>>}
    /\ posts = (1 :> SeedPost) @@ (2 :> SecondPost)
    /\ nextPostId = 3
    /\ comments = (1 :> SeedComment(1))
    /\ nextCommentId = 2
    /\ everPublished = {1, 2}

\* an id that posts_id_seq has not handed out
UnusedPostId == 3

NextDelete ==
    \E r \in Slots :
        \/ ArriveDeletePost(r, {NoHeader}, {1, 2, UnusedPostId})
        \/ ArriveCreateComment(r, {2}, {Null})
        \/ ArriveListComments(r, {1, 2})
        \/ DeletePostExec(r)
        \/ CreateCommentCheck(r)
        \/ CreateCommentInsert(r)
        \/ ListCommentsExec(r)

SpecDelete == InitDelete /\ [][NextDelete]_vars

(* C23: DELETE /posts/:id answers 404 and changes nothing when no post has *)
(* the id; otherwise it removes the post row with all of its comments and  *)
(* post_tags rows and leaves every tag, every category and every other     *)
(* post unchanged; the id is then gone, so a second DELETE of it is 404.   *)
C23_DeleteCascades ==
    [][ \A r \in Slots :
          (At(r, "deletePost", "delete") /\ Answers(r)) =>
             LET id == req[r].id IN
             /\ tags' = tags /\ categories' = categories
             /\ \A p \in DOMAIN posts \ {id} : p \in DOMAIN posts' /\ posts'[p] = posts[p]
             /\ IF id \notin DOMAIN posts
                THEN /\ last'.status \in {404, 500}
                     /\ posts' = posts /\ comments' = comments /\ postTags' = postTags
                ELSE /\ last'.status \in {200, 500}
                     /\ last'.status = 500 =>
                          posts' = posts /\ comments' = comments /\ postTags' = postTags
                     /\ last'.status = 200 =>
                          /\ DOMAIN posts' = DOMAIN posts \ {id}
                          /\ DOMAIN comments' = {c \in DOMAIN comments : comments[c].post_id # id}
                          /\ \A c \in DOMAIN comments' : comments'[c] = comments[c]
                          /\ postTags' = {l \in postTags : l[1] # id}
      ]_vars

\* the second DELETE of post 1 was just answered 404; its comment and its tag link
\* are gone, the tag, the categories and post 2 with its link are as they were
C23_Witness ==
    /\ Answered("deletePost", 404)
    /\ last.id = 1
    /\ DOMAIN posts = {2} /\ posts[2] = SecondPost
    /\ \A c \in DOMAIN comments : comments[c].post_id = 2
    /\ postTags = {<<2, 1>>}
    /\ tags = (1 :> SeedTagRow)
    /\ DOMAIN categories = {1, 2}

TagLists ==
    { << <<"A">> >>, << <<"a">>, <<"a">> >>, << <<"A">>, <<"b">> >>, << <<"b">>, <<"a">> >> }

TaggedPostBodies(titles, lists) ==
    { PostBody([title |-> t, content |-> Some(Text), category_id |-> Some(SeedCategory),
                status |-> Some("published"), tags |-> l]) : t \in titles, l \in lists }

NextTags ==
    \E r \in Slots :
        \/ ArriveCreatePost(r, {NoHeader},
                            TaggedPostBodies({Some(<<"H", "i">>), Some(<<"a", " ", "b">>)},
                                             {Null, Some(<<>>)} \cup {Some(l) : l \in TagLists}))
        \/ CreatePostInsert(r)
        \/ CreatePostTagUpsert(r)
        \/ CreatePostTagLink(r)

SpecTags == InitEmpty /\ [][NextTags]_vars

\* the tag ids linked to a post in a post_tags table
LinkedTags(links, id) == {l[2] : l \in {k \in links : k[1] = id}}

\* the slugs derived from a list of tag names
SlugsOf(list) == {TagSlug(list[i]) : i \in 1..Len(list)}

(* C24: post creation with tags is not atomic: when a tag upsert or a tag  *)
(* link fails after the post row was inserted, the request is answered 500 *)
(* instead of 201 while the post row, the tags upserted and the links made *)
(* so far all stay as they are.                                            *)
C24_TagFailureKeepsPost ==
    [][ \A r \in Slots :
          (/\ req[r].ep = "createPost" /\ req[r].pc \in {"tagUpsert", "tagLink"}
           /\ Answers(r) /\ last'.status # 201) =>
             /\ last'.status = 500
             /\ req[r].local.post.id \in DOMAIN posts'
             /\ posts' = posts
             /\ postTags' = postTags
             /\ tags' = tags
      ]_vars

\* a creation with two tags was just answered 500 after its first link was made:
\* the post and that link are stored
C24_Witness ==
    /\ Answered("createPost", 500)
    /\ last.local # NoLocal /\ "post" \in DOMAIN last.local
    /\ last.local.post.id \in DOMAIN posts
    /\ Cardinality(LinkedTags(postTags, last.local.post.id)) = 1
    /\ Cardinality(SlugsOf(last.body.tags[1])) = 2

(* C25: after a successful POST /posts with a tags list the new post is    *)
(* linked to exactly one tag per distinct derived slug of the list.  A     *)
(* name whose slug exists reuses that tag row and sets its name, no second *)
(* tag of that slug is created, and a name repeated in the list gives one  *)
(* link and no error.                                                      *)
C25_OneTagPerSlug ==
    [][ /\ \A t, u \in DOMAIN tags' : tags'[t].slug = tags'[u].slug => t = u
        /\ \A r \in Slots :
             /\ (At(r, "createPost", "tagUpsert") /\ req'[r].pc = "tagLink") =>
                  LET tagName == Head(req[r].local.remaining)
                      t == req'[r].local.tagId
                  IN  /\ t \in DOMAIN tags'
                      /\ tags'[t].slug = TagSlug(tagName)
                      /\ tags'[t].name = tagName
                      /\ (\E u \in DOMAIN tags : tags[u].slug = TagSlug(tagName)) =>
                            DOMAIN tags' = DOMAIN tags /\ tags[t].slug = TagSlug(tagName)
                      /\ \A u \in DOMAIN tags \ {t} : tags'[u] = tags[u]
             /\ (At(r, "createPost", "tagLink") /\ Answers(r) /\ last'.status = 201) =>
                  LET id == req[r].local.post.id
                      linked == LinkedTags(postTags', id)
                  IN  /\ {tags'[t].slug : t \in linked} = SlugsOf(req[r].body.tags[1])
                      /\ Cardinality(linked) = Cardinality(SlugsOf(req[r].body.tags[1]))
      ]_vars

\* the second post was just created with the list <<"a", "a">> while a tag of slug
\* "a" existed under the name "A": one tag, renamed, linked once to each post
C25_Witness ==
    /\ Answered("createPost", 201)
    /\ last.body.tags = Some(<< <<"a">>, <<"a">> >>)
    /\ Cardinality(LinkedTags(postTags, last.resBody.id)) = 1
    /\ Cardinality(DOMAIN tags) = 1
    /\ \A t \in DOMAIN tags : tags[t].name = <<"a">> /\ <<1, t>> \in postTags /\ <<2, t>> \in postTags
(***************************************************************************)
(* SpecStats: the dashboard statistics are requested while a post with a   *)
(* comment is deleted, so the five queries can see different data.         *)
(***************************************************************************)
NextStats ==
    \E r \in Slots :
        \/ ArriveAdminStats(r, {NoHeader})
        \/ ArriveDeletePost(r, {NoHeader}, {1})
        \/ AdminStatsQuery(r)
        \/ AdminStatsLeftover(r)
        \/ DeletePostExec(r)

SpecStats == InitDelete /\ [][NextStats]_vars

\* the request in slot r is answered in this step
StatsAnswered(r) ==
    /\ At(r, "adminStats", "all")
    /\ last'.pc = "done" /\ last'.ep = "adminStats"
    /\ req'[r].pc \in {"idle", "settled"}

(* C22: GET /admin/stats issues its five queries at once.  It answers 200  *)
(* with all five parts only when all five have succeeded; when one or      *)
(* several fail, in whatever order they complete, the response is one 500  *)
(* with the generic error and no part of a result, sent at the first       *)
(* failure, and nothing is sent for the queries that complete after it.    *)
C22_StatsAllOrNothing ==
    [][ \A r \in Slots :
          /\ (req[r].pc = "idle" /\ req'[r].ep = "adminStats") =>
               req'[r].pc = "all" /\ req'[r].local.pending = StatsQueries
          /\ (At(r, "adminStats", "all") /\ Moves(r)) =>
               \E k \in req[r].local.pending :
                  \/ /\ req[r].local.pending # {k}
                     /\ req'[r].pc = "all" /\ last' = Idle
                     /\ req'[r].local.pending = req[r].local.pending \ {k}
                  \/ /\ StatsAnswered(r) /\ last'.status = 200
                     /\ req[r].local.pending = {k}
                     /\ req'[r].pc = "idle"
                     /\ DOMAIN last'.resBody =
                          {"posts", "comments", "views", "recentPosts", "recentComments"}
                     /\ DOMAIN req[r].local.results = StatsQueries \ {k}
                     /\ last'.resBody =
                          StatsBody((k :> StatsResult(k)) @@ req[r].local.results)
                  \/ /\ StatsAnswered(r) /\ last'.status = 500
                     /\ last'.resBody = Error("Failed to fetch admin stats")
          /\ (At(r, "adminStats", "settled") /\ Moves(r)) => last' = Idle
      ]_vars

\* a 500 was just sent for a request of which two queries had succeeded and two
\* are still running
C22_Witness ==
    /\ Answered("adminStats", 500)
    /\ \E r \in Slots :
         /\ At(r, "adminStats", "settled")
         /\ Cardinality(req[r].local.pending) = 2
         /\ Cardinality(DOMAIN req[r].local.results) = 2
(***************************************************************************)
(* SpecAnswer: requests that pass through requireAuth, the five parallel   *)
(* queries of the statistics, the tag loop of post creation and the view   *)
(* of a post run side by side.  Every query that was issued completes:     *)
(* each step of each request in flight, and each pending view-count        *)
(* UPDATE, is taken eventually.                                            *)
(***************************************************************************)
InitAnswer ==
    /\ InitProcess
    /\ InitCatalog
    /\ cognito \in {DevMode, Enforcing}
    /\ posts = (1 :> SeedPost)
    /\ nextPostId = 2
    /\ comments = <<>>
    /\ nextCommentId = 1
    /\ everPublished = {1}

\* the next step of the request in slot r
StepOf(r) ==
    \/ VerifyDone(r)
    \/ AdminStatsQuery(r)
    \/ AdminStatsLeftover(r)
    \/ CreatePostInsert(r)
    \/ CreatePostTagUpsert(r)
    \/ CreatePostTagLink(r)
    \/ GetPostSelect(r)
    \/ GetPostTags(r)

NextAnswer ==
    \/ \E p \in PostIds : IncrementViewCount(p)
    \/ \E r \in Slots :
        \/ /\ InFlight("adminStats", {"verify", "all", "settled"}) = 0
           /\ ArriveAdminStats(r, {NoHeader, <<"Bearer", "good">>, <<"Bearer", "bad">>})
        \/ ArriveCreatePost(r, {NoHeader},
                            TaggedPostBodies({Null}, {Null})
                              \cup TaggedPostBodies({Some(<<"a", " ", "b">>)},
                                                    {Some(<< <<"A">>, <<"b">> >>)}))
        \/ /\ ViewsSoFar = 0
           /\ ArriveGetPost(r, {<<"h", "i">>, <<"a", "-", "b">>})
        \/ StepOf(r)

SpecAnswer ==
    /\ InitAnswer
    /\ [][NextAnswer]_vars
    /\ \A r \in Slots : WF_vars(StepOf(r))
    /\ \A p \in PostIds : WF_vars(IncrementViewCount(p))

\* the response to the request in slot r is sent in this step
Responds(r) ==
    /\ req[r].pc \notin {"idle", "settled"}
    /\ req'[r].pc \in {"idle", "settled"}

(* C30: every request is answered exactly once.  On every path through     *)
(* requireAuth exactly one of next() and a response happens; on every path *)
(* through a handler (success, validation failure, not found, a query      *)
(* failing at any step, the tag loop included) exactly one response is     *)
(* sent; and, every issued query completing, each request in flight is     *)
(* answered in the end.                                                    *)
C30_AnsweredExactlyOnce ==
    /\ [][ \A r \in Slots :
             /\ Responds(r) =>
                  /\ last'.pc = "done" /\ last'.ep = req[r].ep
                  /\ last'.status # 0
                  /\ Gated(req[r].ep) =>
                        (last'.nextCalled <=> last'.status \notin {401, 403})
             /\ (Moves(r) /\ ~Responds(r) /\ req[r].pc # "idle") => last' = Idle
             /\ (Moves(r) /\ req[r].pc = "idle") =>
                  \/ req'[r].pc # "idle" /\ last' = Idle
                  \/ req'[r].pc = "idle" /\ last'.pc = "done" /\ last'.status # 0
             /\ (req'[r].pc \notin {"idle", "verify"} /\ Gated(req'[r].ep)) =>
                  req'[r].nextCalled
        ]_vars
    /\ \A r \in Slots :
          (req[r].pc \notin {"idle", "settled"}) ~> (req[r].pc \in {"idle", "settled"})
====
